---- MODULE Spec2Model ----
(***************************************************************************)
(* Chat-session persistence and streaming reconciliation of                *)
(* backend/main.py: the blocking endpoint chat, its helper                 *)
(* chat_with_custom_model and the generator stream_chat_generator, over    *)
(* the tables chat_sessions, chat_messages and chat_attachments, and the    *)
(* session and message endpoints list_chat_sessions, get_session_messages, *)
(* delete_chat_session, update_chat_session, debug_session_messages and    *)
(* update_chat_message.                                                    *)
(*                                                                         *)
(* Requests run on one cooperative event loop: a request keeps the loop    *)
(* (variable active) from one suspension point (a yield of the generator,  *)
(* an await asyncio.sleep) to the next; sqlite3 and the OpenAI client are  *)
(* synchronous calls and never give the loop away. Every save opens a      *)
(* connection of its own (get_db), closed without commit or rollback:     *)
(* whether a save that raised then still holds the write lock of the       *)
(* database depends on the sqlite3 module of the interpreter.              *)
(***************************************************************************)
EXTENDS Integers, Sequences, FiniteSets, TLC

VARIABLES db, turns, active, admin
vars == <<db, turns, active, admin>>

\* ------------------------------------------------------------------ bounds
\* Largest number of deltas one upstream stream delivers.
MaxChunks == 2
\* Largest number of runs.retrieve polls of one assistant run.
MaxPolls == 2
\* Largest number of session and message requests (list, read, delete,
\* update, edit) served in one behaviour.
MaxOps == 2

\* ------------------------------------------------------------- value sets
NULL == "NULL"
Turns == {"t1", "t2"}
Users == {"u1", "u2"}
\* Session ids a client supplies; TitleGenId contains the marker '__title_gen'.
TitleGenId == "s__title_gen"
ClientSessionIds == {NULL, "s1", TitleGenId}
\* Two requests are followed. The first ranges over every input; the second
\* arrives once the first has started and is a blocking request on the
\* default model that continues the first one's conversation (same session
\* id) or starts a conversation of its own (no session id).
FirstTurn == "t1"
\* str(uuid.uuid4()) of a request without session id: one fresh id per request.
FreshSessionId(t) == "uuid-" \o t
Purposes == {"chat", "Generate title"}

Msg(r, c) == [role |-> r, content |-> c]
\* request.messages of the blocking endpoint.
Histories ==
    { << >>,
      << Msg("user", "hi"), Msg("assistant", "yo") >>,
      << Msg("user", "hi"), Msg("assistant", "yo"), Msg("user", "more") >> }

\* The decoded history query parameter of the streaming endpoint: text that
\* is no JSON, JSON that is no list, JSON nested too deeply for the decoder,
\* or a list whose items are either dicts with role and content or not.
Item(v, r, c) == [valid |-> v, role |-> r, content |-> c]
RawHistories ==
    { [shape |-> "bad_json", items |-> << >>],
      [shape |-> "not_list", items |-> << >>],
      [shape |-> "too_deep", items |-> << >>],
      [shape |-> "list", items |-> << >>],
      [shape |-> "list", items |-> << Item(FALSE, "user", "x") >>],
      [shape |-> "list", items |-> << Item(TRUE, "user", "hi"), Item(TRUE, "assistant", "yo") >>],
      [shape |-> "list", items |-> << Item(TRUE, "user", "hi"), Item(FALSE, "user", "x"),
                                      Item(TRUE, "assistant", "yo"), Item(TRUE, "user", "more") >>] }

\* Rows of custom_models: id -> model_type and assistant_id.
CustomModels ==
    [m \in {"m_gpt", "m_asst"} |->
        IF m = "m_gpt" THEN [model_type |-> "gpt", assistant_id |-> NULL]
                       ELSE [model_type |-> "assistant", assistant_id |-> "asst_1"]]
ModelIds == {NULL, "m_gpt", "m_asst", "m_missing"}

\* Temporary ids of uploaded files; UploadedFiles are the ones in CHAT_UPLOAD_DIR.
UploadedFiles == {"f1"}
AttachmentLists == { << >>, << "f1", "fx" >> }

\* ------------------------------------------------------- sequence helpers
Range(s) == {s[i] : i \in 1..Len(s)}

\* ------------------------------------------------------------ the store
\* The upsert, were its conflict clause to set created_at as well.
upsert_session_touching_created_at(sessions, sid, uid, now) ==
    IF \E r \in sessions : r.id = sid
    THEN {IF r.id = sid THEN [r EXCEPT !.created_at = now, !.last_updated_at = now] ELSE r
            : r \in sessions}
    ELSE sessions \cup {[id |-> sid, user_id |-> uid, title |-> NULL, system_prompt |-> NULL,
                         created_at |-> now, last_updated_at |-> now]}

\* The upsert, were its conflict clause to do nothing.
upsert_session_first_writer_only(sessions, sid, uid, now) ==
    IF \E r \in sessions : r.id = sid
    THEN sessions
    ELSE sessions \cup {[id |-> sid, user_id |-> uid, title |-> NULL, system_prompt |-> NULL,
                         created_at |-> now, last_updated_at |-> now]}

\* The upsert, were it an INSERT OR REPLACE of the whole row.
upsert_session_replacing_row(sessions, sid, uid, now) ==
    {r \in sessions : r.id # sid}
        \cup {[id |-> sid, user_id |-> uid, title |-> NULL, system_prompt |-> NULL,
               created_at |-> IF \E r \in sessions : r.id = sid
                              THEN (CHOOSE r \in sessions : r.id = sid).created_at ELSE now,
               last_updated_at |-> now]}

\* INSERT INTO chat_sessions (id, user_id, created_at, last_updated_at)
\* VALUES (sid, uid, now, now)
\* ON CONFLICT(id) DO UPDATE SET last_updated_at = excluded.last_updated_at
upsert_session(sessions, sid, uid, now) ==
    IF \E r \in sessions : r.id = sid
    THEN {IF r.id = sid THEN [r EXCEPT !.last_updated_at = now] ELSE r : r \in sessions}
    ELSE sessions \cup {[id |-> sid, user_id |-> uid, title |-> NULL, system_prompt |-> NULL,
                         created_at |-> now, last_updated_at |-> now]}

\* INSERT INTO chat_messages (id, session_id, user_id, role, content,
\* timestamp[, model_used]); is_deleted defaults to FALSE, edited_at to NULL
\* (0 here: timestamps start at 1).
message_row(id, sid, uid, role, content, now, model_used) ==
    [id |-> id, session_id |-> sid, user_id |-> uid, role |-> role, content |-> content,
     timestamp |-> now, model_used |-> model_used, is_deleted |-> FALSE, edited_at |-> 0]

\* One "direct save": now_iso = datetime.now(), id = uuid4(), the session
\* upsert, the message insert and the commit, on a connection of its own.
direct_save(d, sid, uid, role, content, model_used) ==
    [d EXCEPT !.sessions = upsert_session(d.sessions, sid, uid, d.clock),
              !.messages = Append(d.messages,
                                  message_row(d.next_id, sid, uid, role, content, d.clock,
                                              model_used)),
              !.clock = d.clock + 1,
              !.next_id = d.next_id + 1]

\* The id uuid4() gave the message that direct_save(d, ...) inserted.
saved_id(d) == d.next_id

\* SELECT system_prompt FROM chat_sessions WHERE id = ? AND user_id = ?
session_system_prompt(d, sid, uid) ==
    IF \E r \in d.sessions : r.id = sid /\ r.user_id = uid
    THEN (CHOOSE r \in d.sessions : r.id = sid /\ r.user_id = uid).system_prompt
    ELSE NULL

\* ------------------------------------------------------------ the requests
\* The state of one request: the locals of its handler (source names), and
\* what an observer of the request sees (events sent, HTTP status, rows it
\* wrote, upstream calls it made). cursor is the local of that name of the
\* save that ran last, as far as it keeps a transaction open.
IdleTurn ==
    [pc |-> "idle", kind |-> NULL, user |-> NULL, session_id |-> NULL, purpose |-> NULL,
     model_id |-> NULL, messages |-> << >>, title_generation_mode |-> FALSE,
     system_prompt |-> NULL, temp_response_buffer |-> "", content |-> NULL,
     message_saved |-> FALSE, model_used |-> "unknown", model_type |-> NULL,
     run_status |-> NULL, polls |-> 0, nchunks |-> 0,
     raised |-> NULL, raised_status |-> 0, custom_message |-> NULL, error_msg |-> NULL,
     events |-> << >>, status |-> 0, reply |-> NULL,
     saved |-> << >>, upstream |-> << >>,
     attachments |-> << >>, listdir_failed |-> FALSE, attachments_save |-> "none",
     request |-> NULL, user_save |-> "none", assistant_save |-> "none",
     upstream_failed |-> FALSE, unexpected |-> FALSE, cancelled |-> FALSE,
     cursor |-> NULL]

\* The session and message requests served so far: how many, and the last
\* one with its caller, the id it names, its other arguments, HTTP status and
\* response body, and which request came before it; pending are the requests
\* between two of their statements, where requests are followed statement
\* by statement.
NoRequest ==
    [ops |-> 0, op |-> NULL, user |-> NULL, target |-> NULL, args |-> NULL, status |-> 0,
     body |-> NULL, prev |-> NULL, pending |-> {}]

Init ==
    /\ db = [sessions |-> {}, messages |-> << >>, attachments |-> {}, clock |-> 1, next_id |-> 1]
    /\ turns = [t \in Turns |-> IdleTurn]
    /\ active = NULL
    /\ admin = NoRequest

\* The event loop is free, or the request already runs on it.
Runs(t) == active = t
Free == active = NULL

\* '__title_gen' in (session_id or '') or request.purpose == 'Generate title'
is_title_generation(session_id, purpose) ==
    session_id = TitleGenId \/ purpose = "Generate title"

convert_to_openai_message(m) == [role |-> m.role, content |-> m.content]
convert_all(ms) == [i \in 1..Len(ms) |-> convert_to_openai_message(ms[i])]

\* What an upstream completion holds in choices[0].message.content.
UpstreamReplies == {NULL, "", "Hello!"}
FallbackReply == "Sorry, I couldn't generate a response."
\* The text of the exception an upstream call raises.
UpstreamError == "Connection error."

\* The reply taken as it comes, None as the empty string.
normalize_reply_as_it_comes(c) == IF c = NULL THEN "" ELSE c
\* gpt_response if isinstance(gpt_response, str) else str(gpt_response or ""),
\* then the fallback for an empty string.
normalize_reply(c) ==
    LET s == IF c = NULL THEN "" ELSE c
    IN  IF s = "" THEN FallbackReply ELSE s

\* The condition, were it to forget that the custom model saved already.
chat_saves_assistant_always(model_id, title_mode) == ~title_mode
\* if not request.model_id and not title_generation_mode: chat saves the reply
\* itself only on the default path.
chat_saves_assistant(model_id, title_mode) == model_id = NULL /\ ~title_mode

\* How a message list stands to the rule "non-empty, last message from the
\* user": recorded per request for the properties, read by no handler.
classify(msgs) ==
    IF msgs = << >> THEN "empty"
    ELSE IF msgs[Len(msgs)].role # "user" THEN "bad_tail"
    ELSE "valid"

\* The inputs a request ranges over.
SessionIdsOf(t) == IF t = FirstTurn THEN ClientSessionIds ELSE {turns[FirstTurn].session_id, NULL}
UsersOf(t) == IF t = FirstTurn THEN {"u1"} ELSE Users
PurposesOf(t) == IF t = FirstTurn THEN Purposes ELSE {"chat"}
ModelIdsOf(t) == IF t = FirstTurn THEN ModelIds ELSE {NULL}
HistoriesOf(t) ==
    IF t = FirstTurn THEN Histories
    ELSE {<< Msg("user", "hi"), Msg("assistant", "yo"), Msg("user", "more") >>}
KindsOf(t) == IF t = FirstTurn THEN {"chat", "stream"} ELSE {"chat"}
AttachmentListsOf(t) == IF t = FirstTurn THEN AttachmentLists ELSE {<< >>}
\* The second request arrives after the first.
MayBegin(t) == t # FirstTurn => turns[FirstTurn].pc # "idle"

\* ------------------------------------------------- get_db and the write lock
\* get_db yields a new connection and only closes it in "finally"; it neither
\* commits nor rolls back. What becomes of the transaction of a save that
\* raised, at the upsert or at the INSERT, is left to the sqlite3 module of
\* the interpreter: CPython 3.12 and 3.13 (and 3.8 to 3.10) roll it back when
\* the connection is closed; CPython 3.11 keeps it open, and with it the
\* write lock of the database file, for as long as the local variable cursor
\* of the saving function lives (in its frame, or in the traceback of the
\* exception it raised). A save that raised before it had the write lock
\* leaves nothing open on any interpreter.
OpenTransaction == "open transaction"
\* What cursor stands for after a save that raised: kept_open when the
\* closed connection still has the transaction of the save, as it can under
\* CPython 3.11; otherwise nothing is left open.
failed_cursor(kept_open) == IF kept_open THEN OpenTransaction ELSE NULL
\* The cursor, were a failed save to leave nothing open.
failed_cursor_rolled_back(kept_open) == NULL
\* sqlite3 lets request t write: no other request holds the write lock (with
\* it held, execute raises "database is locked" once the timeout is over).
can_write(t) == \A u \in Turns \ {t} : turns[u].cursor # OpenTransaction
\* The same for a request to the session and message endpoints.
database_locked == \E u \in Turns : turns[u].cursor = OpenTransaction

\* --------------------------------------------- POST /api/chat (blocking)
\* A step of request t: its record changes; no session or message request is
\* served by it.
Set(t, r) == turns' = [turns EXCEPT ![t] = r] /\ UNCHANGED admin

\* raise HTTPException(status_code=...) / return ChatResponse(...): the
\* request is over and gives the event loop away.
respond(r, status, reply) ==
    [r EXCEPT !.pc = "finished", !.status = status, !.reply = reply, !.cursor = NULL]

\* The linking, were one missing file to undo it for all.
resolved_attachments_all_or_none(atts, dir_ok) ==
    IF dir_ok /\ Range(atts) \subseteq UploadedFiles THEN atts ELSE << >>
\* The attachments of the request that resolve to a file of the upload
\* directory: os.listdir raising skips the attachment (continue).
resolved_attachments(atts, dir_ok) ==
    IF dir_ok THEN SelectSeq(atts, LAMBDA a : a \in UploadedFiles) ELSE << >>

attachment_rows(d, atts, message_id, uid) ==
    {[id |-> d.next_id + i - 1, message_id |-> message_id, user_id |-> uid,
      temp_file_id |-> atts[i]] : i \in 1..Len(atts)}

\* chat, from its first line to the end of "Save user message": the session
\* id, title_generation_mode, the validation of request.messages, the direct
\* save of the user message and the linking of the attachments.
\* save_ok, dir_ok, att_ok: whether the message transaction commits, whether
\* os.listdir succeeds, whether the INSERT INTO chat_attachments succeeds.
chat_begin(t) ==
    /\ Free
    /\ turns[t].pc = "idle"
    /\ MayBegin(t)
    /\ "chat" \in KindsOf(t)
    /\ \E user \in UsersOf(t), sid \in SessionIdsOf(t), purpose \in PurposesOf(t),
          model_id \in ModelIdsOf(t), msgs \in HistoriesOf(t), atts \in AttachmentListsOf(t),
          save_ok, dir_ok, att_ok \in BOOLEAN :
        LET session_id == IF sid = NULL THEN FreshSessionId(t) ELSE sid
            title_mode == is_title_generation(session_id, purpose)
            r0 == [IdleTurn EXCEPT !.kind = "chat", !.user = user, !.session_id = session_id,
                                   !.purpose = purpose, !.model_id = model_id, !.messages = msgs,
                                   !.title_generation_mode = title_mode,
                                   !.attachments = atts, !.listdir_failed = ~dir_ok,
                                   !.request = classify(msgs)]
            next_pc == IF model_id # NULL THEN "custom_lookup" ELSE "chat_default"
            d1 == direct_save(db, session_id, user, "user", msgs[Len(msgs)].content, NULL)
            linked == resolved_attachments(atts, dir_ok)
            d2 == [d1 EXCEPT !.attachments = @ \cup attachment_rows(d1, linked, saved_id(db), user),
                             !.next_id = @ + Len(linked)]
            r1 == [r0 EXCEPT !.saved = << saved_id(db) >>, !.user_save = "ok"]
        IN  /\ (atts = << >> \/ title_mode) => (dir_ok /\ att_ok)
            /\ title_mode => save_ok
            /\ IF msgs = << >> \/ msgs[Len(msgs)].role # "user"
               THEN /\ save_ok /\ dir_ok /\ att_ok
                    /\ Set(t, respond(r0, 400, NULL))
                    /\ UNCHANGED <<db, active>>
               ELSE IF title_mode
               THEN /\ Set(t, [r0 EXCEPT !.pc = next_pc])
                    /\ active' = t
                    /\ UNCHANGED db
               ELSE IF ~save_ok
               THEN /\ dir_ok /\ att_ok
                    /\ Set(t, respond([r0 EXCEPT !.user_save = "failed"], 500, NULL))
                    /\ UNCHANGED <<db, active>>
               ELSE IF linked # << >> /\ ~att_ok
               THEN /\ can_write(t)
                    /\ Set(t, respond([r1 EXCEPT !.attachments_save = "failed"], 500, NULL))
                    /\ db' = d1
                    /\ UNCHANGED active
               ELSE /\ att_ok
                    /\ can_write(t)
                    /\ Set(t, [r1 EXCEPT !.pc = next_pc,
                                         !.attachments_save = IF atts = << >> THEN "none" ELSE "ok"])
                    /\ db' = d2
                    /\ active' = t

\* The failed save, were it to fail the request.
failed_save_response_as_error(r, reply) == respond(r, 500, NULL)
\* "except Exception as save_error: logger.error(...)", then the return of
\* ChatResponse: the failed save of the assistant message is logged only.
failed_save_response(r, reply) == respond(r, 200, reply)

\* chat, from "Ensure response_content is a non-empty string" to the return:
\* the reply is normalised, saved when chat_saves_assistant, and returned.
chat_finish(t, r, response_content_str, model_used, save_ok) ==
    LET reply == IF response_content_str = "" THEN FallbackReply ELSE response_content_str
    IN  /\ active' = NULL
        /\ IF chat_saves_assistant(r.model_id, r.title_generation_mode)
           THEN IF save_ok
                THEN /\ can_write(t)
                     /\ db' = direct_save(db, r.session_id, r.user, "assistant", reply, model_used)
                     /\ Set(t, respond([r EXCEPT !.saved = Append(@, saved_id(db)),
                                                 !.assistant_save = "ok"], 200, reply))
                ELSE /\ Set(t, failed_save_response([r EXCEPT !.assistant_save = "failed"], reply))
                     /\ UNCHANGED db
           ELSE /\ save_ok
                /\ Set(t, respond(r, 200, reply))
                /\ UNCHANGED db

completion_call(msgs) == [call |-> "chat.completions.create", messages |-> msgs]

\* chat on the default path: client.chat.completions.create with the
\* request's messages; outcome is what the call does: it raises, it answers
\* without choices (choices[0] raises IndexError), or it answers with content.
\* Any exception ends in "except Exception as e", which saves nothing and
\* raises HTTPException(500).
chat_default(t) ==
    /\ Runs(t)
    /\ turns[t].pc = "chat_default"
    /\ \E outcome \in {"raise", "no_choices"} \cup UpstreamReplies, save_ok \in BOOLEAN :
        LET r == [turns[t] EXCEPT !.upstream = Append(@, completion_call(convert_all(turns[t].messages)))]
        IN  IF outcome \in {"raise", "no_choices"}
            THEN /\ save_ok
                 /\ Set(t, respond([r EXCEPT !.upstream_failed = TRUE], 500, NULL))
                 /\ active' = NULL
                 /\ UNCHANGED db
            ELSE chat_finish(t, r, IF outcome = NULL THEN "" ELSE outcome, "gpt-4o-mini", save_ok)

\* ------------------------------------------------ chat_with_custom_model
\* Terminal and non-terminal statuses runs.retrieve reports.
RunStatuses == {"in_progress", "completed", "failed"}
\* The poll loop, were it to go on only for a queued run.
still_running_while_queued(status) == status = "queued"
\* The poll loop goes on while run.status in ["queued", "in_progress"].
still_running(status) == status \in {"queued", "in_progress"}

\* config["instructions"] of the stored model.
StoredInstructions == "You are a custom model."

\* What messages.list holds as the newest assistant message of the thread:
\* none, or a content array that is empty, holds text, or holds something else.
ThreadReplies ==
    { [present |-> FALSE, shape |-> "empty", value |-> ""],
      [present |-> TRUE, shape |-> "empty", value |-> ""],
      [present |-> TRUE, shape |-> "text", value |-> "Hello!"],
      [present |-> TRUE, shape |-> "text", value |-> ""],
      [present |-> TRUE, shape |-> "other", value |-> ""] }

safely_extract_assistant_text(content_array) ==
    IF content_array.shape = "empty" THEN "No content received from assistant"
    ELSE IF content_array.shape = "text" THEN content_array.value
    ELSE "Content received (type: ImageFileContentBlock) but couldn't extract text"

\* "except Exception as e: ... raise HTTPException(status_code=500, ...)":
\* the status the caller sees for an exception raised with the given status.
custom_reraise_status(status) == 500

\* The call ends by an exception: back in the caller with the exception.
custom_raise(r, status, detail) ==
    [r EXCEPT !.pc = IF r.kind = "chat" THEN "chat_return" ELSE "stream_return",
              !.raised = detail, !.raised_status = custom_reraise_status(status)]

\* return {"message": ..., "role": ..., "model_used": ...}
custom_return(r, message, model_used) ==
    [r EXCEPT !.pc = IF r.kind = "chat" THEN "chat_return" ELSE "stream_return",
              !.raised = NULL, !.custom_message = message, !.model_used = model_used]

\* The rows custom_models, chat_sessions and model_files are read.
\* read_ok: whether the reads succeed.
custom_lookup(t) ==
    /\ Runs(t)
    /\ turns[t].pc = "custom_lookup"
    /\ \E read_ok \in BOOLEAN :
        LET r == turns[t]
            model_type == CustomModels[r.model_id].model_type
        IN  /\ UNCHANGED <<db, active>>
            /\ IF ~read_ok
               THEN Set(t, custom_raise(r, 500, "database error"))
               ELSE IF r.model_id \notin DOMAIN CustomModels
               THEN Set(t, custom_raise(r, 404, "Custom model not found"))
               ELSE Set(t, [r EXCEPT !.pc = IF model_type = "assistant" THEN "custom_assistant"
                                                                         ELSE "custom_gpt",
                                     !.model_type = model_type,
                                     !.system_prompt = session_system_prompt(db, r.session_id, r.user),
                                     !.model_used = "custom:" \o model_type \o ":" \o r.model_id])

\* The thread filled with the whole history, whatever the roles.
thread_messages_of_all_roles(messages) == messages
\* for msg in request.messages: if msg.role == "user": the messages that are
\* pushed to the thread.
thread_messages(messages) == SelectSeq(messages, LAMBDA m : m.role = "user")

\* The status a run has when runs.create returns it.
CreatedStatuses == {"queued"} \cup RunStatuses

\* threads.create, messages.create for every message with role user, and
\* runs.create; run.status is what runs.create returned. fail_at: the call
\* that raises: 0 threads.create, k the k-th messages.create, n + 1
\* runs.create for n messages to push, n + 2 none. The calls to
\* messages.create that were made are recorded, the raising one included.
custom_assistant_start(t) ==
    /\ Runs(t)
    /\ turns[t].pc = "custom_assistant"
    /\ LET r == turns[t]
           pushed == thread_messages(r.messages)
           n == Len(pushed)
       IN  \E fail_at \in 0..(n + 2), status \in CreatedStatuses :
            LET made == SubSeq(pushed, 1, IF fail_at < n THEN fail_at ELSE n)
                r1 == IF fail_at = 0 THEN r
                      ELSE [r EXCEPT !.upstream = Append(@, [call |-> "threads.messages.create",
                                                             messages |-> convert_all(made)])]
            IN  /\ UNCHANGED <<db, active>>
                /\ IF fail_at = n + 2
                   THEN Set(t, [r1 EXCEPT !.pc = "custom_poll", !.run_status = status])
                   ELSE /\ status = "queued"
                        /\ Set(t, custom_raise([r1 EXCEPT !.upstream_failed = TRUE], 500,
                                               UpstreamError))

\* while run.status in ["queued", "in_progress"]: await asyncio.sleep(0.5)
custom_sleep(t) ==
    /\ Runs(t)
    /\ turns[t].pc = "custom_poll"
    /\ still_running(turns[t].run_status)
    /\ turns[t].polls < MaxPolls
    /\ Set(t, [turns[t] EXCEPT !.pc = "custom_sleeping"])
    /\ active' = NULL
    /\ UNCHANGED db

\* run = client.beta.threads.runs.retrieve(...), after the sleep.
custom_retrieve(t) ==
    /\ Free
    /\ turns[t].pc = "custom_sleeping"
    /\ \E st \in RunStatuses \cup {"raise"} :
        /\ IF st = "raise"
           THEN Set(t, custom_raise([turns[t] EXCEPT !.upstream_failed = TRUE], 500, UpstreamError))
           ELSE Set(t, [turns[t] EXCEPT !.pc = "custom_poll", !.run_status = st, !.polls = @ + 1])
        /\ active' = t
        /\ UNCHANGED db

\* "Save successful assistant response": skipped for title generation; a
\* failing save is logged only.
custom_save_and_return(t, r, assistant_content, model_used, save_ok) ==
    LET content == normalize_reply(assistant_content)
    IN  /\ UNCHANGED active
        /\ IF r.title_generation_mode
           THEN /\ save_ok
                /\ Set(t, custom_return(r, content, model_used))
                /\ UNCHANGED db
           ELSE IF save_ok
           THEN /\ can_write(t)
                /\ db' = direct_save(db, r.session_id, r.user, "assistant", content, model_used)
                /\ Set(t, custom_return([r EXCEPT !.saved = Append(@, saved_id(db)),
                                                  !.assistant_save = "ok"], content, model_used))
           ELSE /\ Set(t, custom_return([r EXCEPT !.assistant_save = "failed"], content, model_used))
                /\ UNCHANGED db

\* The "direct save approach" for an error of the custom model, then the raise.
custom_save_error_and_raise(t, r, error_content, detail, save_ok) ==
    /\ UNCHANGED active
    /\ IF save_ok
       THEN /\ can_write(t)
            /\ db' = direct_save(db, r.session_id, r.user, "assistant", error_content,
                                 r.model_used \o "-error")
            /\ Set(t, custom_raise([r EXCEPT !.saved = Append(@, saved_id(db)),
                                             !.assistant_save = "ok",
                                             !.upstream_failed = TRUE], 500, detail))
       ELSE /\ \E kept_open \in BOOLEAN :
                 /\ kept_open => can_write(t)
                 /\ Set(t, custom_raise([r EXCEPT !.assistant_save = "failed",
                                                  !.upstream_failed = TRUE,
                                                  !.cursor = failed_cursor(kept_open)],
                                        500, detail))
            /\ UNCHANGED db

\* The run left the loop: any status but completed saves an error message and
\* raises; completed reads the thread and extracts the reply.
custom_run_done(t) ==
    /\ Runs(t)
    /\ turns[t].pc = "custom_poll"
    /\ ~still_running(turns[t].run_status)
    /\ \E save_ok \in BOOLEAN, list_ok \in BOOLEAN, reply \in ThreadReplies :
        LET r == turns[t]
        IN  IF r.run_status # "completed"
            THEN /\ list_ok /\ reply.shape = "other"
                 /\ custom_save_error_and_raise(t, r, "Assistant run failed. Status: " \o r.run_status,
                                                "Assistant run failed. Status: " \o r.run_status,
                                                save_ok)
            ELSE IF ~list_ok
            THEN /\ save_ok /\ reply.shape = "other"
                 /\ Set(t, custom_raise([r EXCEPT !.upstream_failed = TRUE], 500, UpstreamError))
                 /\ UNCHANGED <<db, active>>
            ELSE custom_save_and_return(t, r,
                    IF reply.present THEN safely_extract_assistant_text(reply)
                                     ELSE "No response generated by assistant.",
                    r.model_used, save_ok)

\* The configured-instruction path: the system message is the session's
\* system prompt, else the stored instructions; then the completion call.
custom_gpt(t) ==
    /\ Runs(t)
    /\ turns[t].pc = "custom_gpt"
    /\ \E outcome \in {"raise", "no_choices"} \cup UpstreamReplies, save_ok \in BOOLEAN :
        LET r0 == turns[t]
            final_system_content == IF r0.system_prompt # NULL THEN r0.system_prompt
                                    ELSE StoredInstructions
            openai_messages == << Msg("system", final_system_content) >> \o convert_all(r0.messages)
            r == [r0 EXCEPT !.upstream = Append(@, completion_call(openai_messages)),
                            !.model_used = "custom:gpt:gpt-4o-mini"]
        IN  IF outcome = "raise"
            THEN /\ save_ok
                 /\ Set(t, custom_raise([r EXCEPT !.upstream_failed = TRUE], 500, UpstreamError))
                 /\ UNCHANGED <<db, active>>
            ELSE IF outcome = "no_choices"
            THEN custom_save_error_and_raise(t, r,
                    "Error: No response choices received from OpenAI for custom GPT model.",
                    "No response choices received from OpenAI", save_ok)
            ELSE custom_save_and_return(t, r, outcome, r.model_used, save_ok)

\* chat after "await chat_with_custom_model(...)": an exception goes to
\* "except Exception as e" (HTTPException 500), a result to the common end.
chat_return(t) ==
    /\ Runs(t)
    /\ turns[t].pc = "chat_return"
    /\ \E save_ok \in BOOLEAN :
        LET r == turns[t]
        IN  IF r.raised # NULL
            THEN /\ save_ok
                 /\ Set(t, respond(r, 500, NULL))
                 /\ active' = NULL
                 /\ UNCHANGED db
            ELSE chat_finish(t, r, r.custom_message, r.model_used, save_ok)

\* ------------------------------------------------- stream_chat_generator
Event(type, data) == [type |-> type, data |-> data]
emit(r, type, data) == [r EXCEPT !.events = Append(@, Event(type, data))]

\* json.loads(history_json) and the checks after it: the exception raised, or
\* openai_messages, the items that are dicts with role and content.
parse_history(raw) ==
    LET msgs == SelectSeq(raw.items, LAMBDA it : it.valid)
        openai_messages == [i \in 1..Len(msgs) |-> Msg(msgs[i].role, msgs[i].content)]
    IN  IF raw.shape = "bad_json" THEN [exc |-> "JSONDecodeError", messages |-> << >>]
        ELSE IF raw.shape = "too_deep" THEN [exc |-> "RecursionError", messages |-> << >>]
        ELSE IF raw.shape = "not_list" \/ raw.items = << >>
        THEN [exc |-> "ValueError", messages |-> << >>]
        ELSE IF openai_messages = << >> THEN [exc |-> "ValueError", messages |-> << >>]
        ELSE [exc |-> NULL, messages |-> openai_messages]

\* The values of delta.content the chunks of an upstream stream carry: none,
\* the empty string, or text.
Deltas == {NULL, "", "a", "b"}

\* The handler, were it to send its error event twice.
enter_outer_handler_telling_twice(r, e) ==
    LET error_msg == "An unexpected server error occurred: " \o e
    IN  [emit(emit(r, "error", error_msg), "error", error_msg)
            EXCEPT !.pc = "stream_outer_yielded", !.error_msg = error_msg, !.unexpected = TRUE]

\* "except Exception as e" of the generator, up to its yield of the error event.
enter_outer_handler(r, e) ==
    LET error_msg == "An unexpected server error occurred: " \o e
    IN  [emit(r, "error", error_msg) EXCEPT !.pc = "stream_outer_yielded",
                                            !.error_msg = error_msg, !.unexpected = TRUE]

\* The handler, were it to save the error without telling the client.
enter_gpt_error_handler_without_event(r, e) ==
    LET error_msg == "Error communicating with AI model: " \o e
    IN  [r EXCEPT !.pc = "stream_error_yielded", !.error_msg = error_msg,
                  !.upstream_failed = TRUE]

\* "except Exception as gpt_error", up to its yield of the error event.
enter_gpt_error_handler(r, e) ==
    LET error_msg == "Error communicating with AI model: " \o e
    IN  [emit(r, "error", error_msg) EXCEPT !.pc = "stream_error_yielded",
                                            !.error_msg = error_msg, !.upstream_failed = TRUE]

\* The generator, were it to go on to the model after the failed save.
after_user_save_failure_continue == "stream_route"
\* Where the generator goes when the save of the user message failed: after
\* the error event it returns.
after_user_save_failure == "stream_exit"

\* The generator from its first line to "Streaming Logic": the session id,
\* the system prompt of the session, the parsed history and the direct save
\* of the user message.
stream_begin(t) ==
    /\ Free
    /\ turns[t].pc = "idle"
    /\ MayBegin(t)
    /\ "stream" \in KindsOf(t)
    /\ \E user \in UsersOf(t), sid \in SessionIdsOf(t), purpose \in PurposesOf(t),
          model_id \in ModelIdsOf(t), raw \in RawHistories, prompt_ok, save_ok \in BOOLEAN :
        LET current_session_id == IF sid = NULL THEN FreshSessionId(t) ELSE sid
            parsed == parse_history(raw)
            openai_messages == parsed.messages
            r0 == [IdleTurn EXCEPT !.kind = "stream", !.user = user,
                                   !.session_id = current_session_id,
                                   !.purpose = purpose, !.model_id = model_id,
                                   !.title_generation_mode =
                                        is_title_generation(current_session_id, purpose),
                                   !.system_prompt =
                                        IF prompt_ok
                                        THEN session_system_prompt(db, current_session_id, user)
                                        ELSE NULL,
                                   !.messages = openai_messages,
                                   !.request = IF raw.shape = "list" /\ raw.items = << >> THEN "empty"
                                               ELSE IF parsed.exc # NULL THEN "malformed"
                                               ELSE classify(openai_messages)]
            last == openai_messages[Len(openai_messages)]
        IN  /\ IF parsed.exc = "RecursionError"
               THEN /\ save_ok
                    /\ Set(t, enter_outer_handler(r0, "maximum recursion depth exceeded"))
                    /\ UNCHANGED <<db, active>>
               ELSE IF parsed.exc # NULL
               THEN /\ save_ok
                    /\ Set(t, [emit(r0, "error", "Invalid history format") EXCEPT !.pc = "stream_exit"])
                    /\ UNCHANGED <<db, active>>
               ELSE IF last.role # "user"
               THEN /\ save_ok
                    /\ Set(t, [r0 EXCEPT !.pc = "stream_route"])
                    /\ active' = t
                    /\ UNCHANGED db
               ELSE IF save_ok
               THEN /\ can_write(t)
                    /\ db' = direct_save(db, current_session_id, user, "user", last.content, NULL)
                    /\ Set(t, [r0 EXCEPT !.pc = "stream_route", !.saved = << saved_id(db) >>,
                                         !.user_save = "ok"])
                    /\ active' = t
               ELSE /\ \E kept_open \in BOOLEAN :
                         /\ kept_open => can_write(t)
                         /\ Set(t, [emit(r0, "error", "Failed to save user message.")
                                       EXCEPT !.pc = after_user_save_failure,
                                              !.user_save = "failed",
                                              !.cursor = failed_cursor(kept_open)])
                    /\ active' = IF after_user_save_failure = "stream_exit" THEN NULL ELSE t
                    /\ UNCHANGED db

\* "if model_id: ... else: ...": the custom model is called, or the default
\* model's stream is opened with the system prompt (if any) before the history.
stream_route(t) ==
    /\ Runs(t)
    /\ turns[t].pc = "stream_route"
    /\ \E ok \in BOOLEAN :
        LET r == turns[t]
            final_openai_messages ==
                IF r.system_prompt \notin {NULL, ""}
                THEN << Msg("system", r.system_prompt) >> \o r.messages
                ELSE r.messages
            r1 == [r EXCEPT !.model_used = "gpt-4o-mini",
                            !.upstream = Append(@, completion_call(final_openai_messages))]
        IN  /\ UNCHANGED db
            /\ IF r.model_id # NULL
               THEN /\ ok
                    /\ Set(t, [r EXCEPT !.pc = "custom_lookup"])
                    /\ UNCHANGED active
               ELSE IF ok
               THEN /\ Set(t, [r1 EXCEPT !.pc = "stream_iter"])
                    /\ UNCHANGED active
               ELSE /\ Set(t, enter_gpt_error_handler(r1, UpstreamError))
                    /\ active' = NULL

\* One step of "for chunk in stream": the stream raises, ends, or delivers a
\* chunk; a chunk with content is yielded to the client. At the end the
\* buffer, when not empty, is saved as the assistant message.
stream_iter(t) ==
    /\ Runs(t)
    /\ turns[t].pc = "stream_iter"
    /\ \E step \in {"raise", "end"} \cup Deltas, save_ok \in BOOLEAN :
        LET r == turns[t]
            response_buffer == r.temp_response_buffer
        IN  IF step = "raise"
            THEN /\ save_ok
                 /\ Set(t, enter_gpt_error_handler(r, UpstreamError))
                 /\ active' = NULL
                 /\ UNCHANGED db
            ELSE IF step = "end"
            THEN /\ UNCHANGED active
                 /\ IF response_buffer = ""
                    THEN /\ save_ok
                         /\ Set(t, [r EXCEPT !.pc = "stream_end"])
                         /\ UNCHANGED db
                    ELSE IF save_ok
                    THEN /\ can_write(t)
                         /\ db' = direct_save(db, r.session_id, r.user, "assistant",
                                              response_buffer, r.model_used)
                         /\ Set(t, [r EXCEPT !.pc = "stream_end", !.message_saved = TRUE,
                                             !.saved = Append(@, saved_id(db)),
                                             !.assistant_save = "ok"])
                    ELSE /\ \E kept_open \in BOOLEAN :
                              /\ kept_open => can_write(t)
                              /\ Set(t, [r EXCEPT !.pc = "stream_end",
                                                  !.assistant_save = "failed",
                                                  !.cursor = failed_cursor(kept_open)])
                         /\ UNCHANGED db
            ELSE /\ save_ok
                 /\ r.nchunks < MaxChunks
                 /\ UNCHANGED db
                 /\ IF step = NULL
                    THEN /\ Set(t, [r EXCEPT !.nchunks = @ + 1])
                         /\ UNCHANGED active
                    ELSE /\ Set(t, [emit(r, "chunk", step) EXCEPT !.pc = "stream_chunk_yielded",
                                                                  !.content = step,
                                                                  !.nchunks = @ + 1])
                         /\ active' = NULL

\* The resumption, were the content put before the buffer.
stream_chunk_resume_prepending(t) ==
    /\ Free
    /\ turns[t].pc = "stream_chunk_yielded"
    /\ Set(t, [turns[t] EXCEPT !.pc = "stream_chunk_sleeping",
                               !.temp_response_buffer = turns[t].content \o @,
                               !.content = NULL])
    /\ active' = NULL
    /\ UNCHANGED db

\* The client took the chunk: temp_response_buffer += content, then
\* "await asyncio.sleep(0.01)" gives the event loop away again.
stream_chunk_resume(t) ==
    /\ Free
    /\ turns[t].pc = "stream_chunk_yielded"
    /\ Set(t, [turns[t] EXCEPT !.pc = "stream_chunk_sleeping",
                               !.temp_response_buffer = @ \o turns[t].content,
                               !.content = NULL])
    /\ active' = NULL
    /\ UNCHANGED db

\* The sleep of 0.01 s is over: "for chunk in stream" goes on.
stream_sleep_resume(t) ==
    /\ Free
    /\ turns[t].pc = "stream_chunk_sleeping"
    /\ Set(t, [turns[t] EXCEPT !.pc = "stream_iter"])
    /\ active' = t
    /\ UNCHANGED db

\* The rest of "except Exception as gpt_error" after its yield: the direct
\* save of the error message.
stream_error_save(t) ==
    /\ Free
    /\ turns[t].pc = "stream_error_yielded"
    /\ \E save_ok \in BOOLEAN :
        LET r == turns[t]
        IN  /\ active' = t
            /\ IF save_ok
               THEN /\ can_write(t)
                    /\ db' = direct_save(db, r.session_id, r.user, "assistant", r.error_msg,
                                         "gpt-4o-mini-error")
                    /\ Set(t, [r EXCEPT !.pc = "stream_end", !.message_saved = TRUE,
                                        !.saved = Append(@, saved_id(db)),
                                        !.assistant_save = "ok"])
               ELSE /\ \E kept_open \in BOOLEAN :
                         /\ kept_open => can_write(t)
                         /\ Set(t, [r EXCEPT !.pc = "stream_end",
                                             !.assistant_save = "failed",
                                             !.cursor = failed_cursor(kept_open)])
                    /\ UNCHANGED db

\* After "await chat_with_custom_model(...)": the reply is yielded as one
\* chunk, an exception as an error event.
stream_return(t) ==
    /\ Runs(t)
    /\ turns[t].pc = "stream_return"
    /\ LET r == turns[t]
           error_msg == "Error with custom model: " \o r.raised
       IN  /\ UNCHANGED db
           /\ IF r.raised # NULL
              THEN /\ Set(t, [emit(r, "error", error_msg) EXCEPT !.pc = "stream_custom_yielded",
                                                                 !.error_msg = error_msg])
                   /\ active' = NULL
              ELSE IF r.custom_message # ""
              THEN /\ Set(t, [emit(r, "chunk", r.custom_message)
                                 EXCEPT !.pc = "stream_custom_yielded", !.message_saved = TRUE])
                   /\ active' = NULL
              ELSE /\ Set(t, [r EXCEPT !.pc = "stream_end", !.message_saved = TRUE])
                   /\ UNCHANGED active

\* The client took the event of stream_return; after the error event
\* message_saved = True.
stream_custom_resume(t) ==
    /\ Free
    /\ turns[t].pc = "stream_custom_yielded"
    /\ Set(t, [turns[t] EXCEPT !.pc = "stream_end", !.message_saved = TRUE, !.cursor = NULL])
    /\ active' = t
    /\ UNCHANGED db

\* "Stream End": the done event is built and yielded; unexpected: a
\* statement here raises, which "except Exception as e" catches.
stream_end(t) ==
    /\ Runs(t)
    /\ turns[t].pc = "stream_end"
    /\ \E unexpected \in BOOLEAN :
        LET r == turns[t]
        IN  /\ IF unexpected
               THEN Set(t, enter_outer_handler(r, "unexpected"))
               ELSE Set(t, [emit(r, "done", r.session_id) EXCEPT !.pc = "stream_done_yielded"])
            /\ active' = NULL
            /\ UNCHANGED db

\* The outer handler without its guard.
outer_handler_saves_always(message_saved) == TRUE
\* "if not message_saved": the outer handler writes its error message only
\* when no assistant message was saved before.
outer_handler_saves(message_saved) == ~message_saved

\* The rest of "except Exception as e" after its yield.
stream_outer_save(t) ==
    /\ Free
    /\ turns[t].pc = "stream_outer_yielded"
    /\ \E save_ok \in BOOLEAN :
        LET r == turns[t]
        IN  /\ UNCHANGED active
            /\ IF ~outer_handler_saves(r.message_saved)
               THEN /\ save_ok
                    /\ Set(t, [r EXCEPT !.pc = "finished", !.cursor = NULL])
                    /\ UNCHANGED db
               ELSE IF save_ok
               THEN /\ can_write(t)
                    /\ db' = direct_save(db, r.session_id, r.user, "assistant", r.error_msg,
                                         r.model_used)
                    /\ Set(t, [r EXCEPT !.pc = "finished", !.message_saved = TRUE,
                                        !.saved = Append(@, saved_id(db)),
                                        !.assistant_save = "ok", !.cursor = NULL])
               ELSE /\ Set(t, [r EXCEPT !.pc = "finished", !.assistant_save = "failed",
                                        !.cursor = NULL])
                    /\ UNCHANGED db

\* The generator is resumed after its last yield: "return" after the error
\* event of an invalid history or of a failed user save, or the end of the
\* function after the done event; "finally" only logs.
stream_exit(t) ==
    /\ Free
    /\ turns[t].pc \in {"stream_exit", "stream_done_yielded"}
    /\ Set(t, [turns[t] EXCEPT !.pc = "finished", !.cursor = NULL])
    /\ UNCHANGED <<db, active>>

\* The places where a streaming request waits for the event loop.
SuspendedPcs ==
    {"stream_exit", "stream_done_yielded", "stream_chunk_yielded", "stream_chunk_sleeping",
     "stream_error_yielded",
     "stream_custom_yielded", "stream_outer_yielded", "custom_sleeping"}

\* The client disconnects: GeneratorExit or CancelledError is raised at the
\* suspension point. Neither is an Exception, so no handler runs but
\* "finally", which only logs.
stream_cancel(t) ==
    /\ Free
    /\ turns[t].kind = "stream"
    /\ turns[t].pc \in SuspendedPcs
    /\ Set(t, [turns[t] EXCEPT !.pc = "finished", !.cancelled = TRUE, !.cursor = NULL])
    /\ UNCHANGED <<db, active>>

\* ---------------------------------------- session and message endpoints
\* Python's s[:n].
prefix(s, n) == SubSeq(s, 1, IF Len(s) < n THEN Len(s) ELSE n)

\* str.strip(): leading and trailing whitespace removed.
Whitespace == {" ", "\t", "\n"}
RECURSIVE lstrip(_)
lstrip(s) ==
    IF s = "" THEN ""
    ELSE IF Head(s) \in Whitespace THEN lstrip(Tail(s)) ELSE s
RECURSIVE rstrip(_)
rstrip(s) ==
    IF s = "" THEN ""
    ELSE IF SubSeq(s, Len(s), Len(s)) \in Whitespace THEN rstrip(SubSeq(s, 1, Len(s) - 1))
    ELSE s
strip(s) == rstrip(lstrip(s))

\* What the clients send: titles and system prompts of a session update
\* (NULL: the field is absent), contents of a message edit.
Long50 == "This sentence is exactly fifty characters long, ok"
Titles == {NULL, "  ", " My chat "}
SystemPrompts == {NULL, "Be brief."}
EditContents == {"", Long50, Long50 \o "!"}
\* The session ids and message ids the requests name: the rows there are,
\* and one id that names no row.
OpSessionIds == {"s1"} \cup {r.id : r \in db.sessions}
OpMessageIds == {db.messages[i].id : i \in 1..Len(db.messages)} \cup {db.next_id}

\* SELECT 1 FROM chat_sessions WHERE id = ? AND user_id = ?, were it to
\* leave the owner out.
owns_session_whoever(d, sid, uid) == \E r \in d.sessions : r.id = sid
\* SELECT 1 FROM chat_sessions WHERE id = ? AND user_id = ?
owns_session(d, sid, uid) == \E r \in d.sessions : r.id = sid /\ r.user_id = uid

\* (SELECT content FROM chat_messages WHERE session_id = cs.id AND
\*  role = 'user' AND is_deleted = FALSE ORDER BY timestamp ASC LIMIT 1)
first_user_message(d, sid) ==
    LET rows == {m \in Range(d.messages) : m.session_id = sid /\ m.role = "user" /\ ~m.is_deleted}
    IN  IF rows = {} THEN NULL
        ELSE (CHOOSE m \in rows : \A o \in rows : m.timestamp <= o.timestamp).content

\* The title made of the first message, were it cut at 50 characters.
fallback_title_cut_at_50(first_message, session_id) ==
    IF first_message # NULL /\ first_message # "" /\ Len(first_message) > 50
    THEN prefix(first_message, 50) \o "..."
    ELSE IF first_message # NULL /\ first_message # "" THEN first_message
    ELSE "Chat Session (" \o prefix(session_id, 6) \o "...)"
\* if first_message and len(first_message) > 50: first_message[:47] + "..."
\* elif first_message: first_message
\* else: f"Chat Session ({session_id[:6]}...)"
fallback_title(first_message, session_id) ==
    IF first_message # NULL /\ first_message # "" /\ Len(first_message) > 50
    THEN prefix(first_message, 47) \o "..."
    ELSE IF first_message # NULL /\ first_message # "" THEN first_message
    ELSE "Chat Session (" \o prefix(session_id, 6) \o "...)"

\* title = row["custom_title"]; if not title: the fallback.
session_title(custom_title, first_message, session_id) ==
    IF custom_title # NULL /\ custom_title # "" THEN custom_title
    ELSE fallback_title(first_message, session_id)

\* ChatSessionInfo(session_id, last_message_timestamp, title, system_prompt)
\* of one row of chat_sessions.
ChatSessionInfo(d, r) ==
    [session_id |-> r.id, last_message_timestamp |-> r.last_updated_at,
     title |-> session_title(r.title, first_user_message(d, r.id), r.id),
     system_prompt |-> r.system_prompt]

\* ORDER BY cs.last_updated_at DESC
RECURSIVE by_last_updated_desc(_)
by_last_updated_desc(rows) ==
    IF rows = {} THEN << >>
    ELSE LET top == CHOOSE r \in rows : \A o \in rows : o.last_updated_at <= r.last_updated_at
         IN  << top >> \o by_last_updated_desc(rows \ {top})

\* The body of GET /api/chat_sessions for user uid.
session_list(d, uid) ==
    LET rows == by_last_updated_desc({r \in d.sessions : r.user_id = uid})
    IN  [i \in 1..Len(rows) |-> ChatSessionInfo(d, rows[i])]

\* ChatMessageHistory of one row of chat_messages, with the ids of its rows
\* of chat_attachments.
ChatMessageHistory(d, m) ==
    [id |-> m.id, role |-> m.role, content |-> m.content, timestamp |-> m.timestamp,
     model_used |-> m.model_used, edited_at |-> m.edited_at, is_deleted |-> m.is_deleted,
     attachments |-> {a.id : a \in {b \in d.attachments : b.message_id = m.id}}]

\* The read, were it to skip the check of the session row.
session_messages_for_anyone(d, sid, uid) ==
    LET rows == SelectSeq(d.messages, LAMBDA m : m.session_id = sid /\ ~m.is_deleted)
    IN  [i \in 1..Len(rows) |-> ChatMessageHistory(d, rows[i])]
\* The body of GET /api/chat_sessions/{session_id}/messages: nothing for a
\* session the caller does not own; else SELECT ... WHERE session_id = ? AND
\* is_deleted = FALSE ORDER BY timestamp ASC (rows are kept in the order of
\* their timestamps).
session_messages(d, sid, uid) ==
    IF ~owns_session(d, sid, uid) THEN << >>
    ELSE LET rows == SelectSeq(d.messages, LAMBDA m : m.session_id = sid /\ ~m.is_deleted)
         IN  [i \in 1..Len(rows) |-> ChatMessageHistory(d, rows[i])]

\* The body of GET /api/debug/session_messages/{session_id}: every row of
\* the session, deleted or not, whoever asks.
debug_messages(d, sid) ==
    LET all_messages == SelectSeq(d.messages, LAMBDA m : m.session_id = sid)
        deleted_messages == SelectSeq(all_messages, LAMBDA m : m.is_deleted)
    IN  [session_found |-> \E r \in d.sessions : r.id = sid,
         message_count |-> Len(all_messages),
         messages |-> all_messages,
         deleted_count |-> Len(deleted_messages),
         deleted_messages |-> deleted_messages]

\* The request a handler has just served.
served(op, uid, target, args, status, body) ==
    [ops |-> admin.ops + 1, op |-> op, user |-> uid, target |-> target, args |-> args,
     status |-> status, body |-> body,
     prev |-> IF admin.ops = 0 THEN NULL
              ELSE [op |-> admin.op, user |-> admin.user, target |-> admin.target,
                    status |-> admin.status],
     pending |-> admin.pending]
\* A handler of these endpoints never awaits: it runs when the event loop is
\* free and leaves it free.
MayServe == Free /\ admin.ops < MaxOps

list_chat_sessions(uid) ==
    /\ MayServe
    /\ admin' = served("list_chat_sessions", uid, NULL, NULL, 200, session_list(db, uid))
    /\ UNCHANGED <<db, turns, active>>

get_session_messages(uid, sid) ==
    /\ MayServe
    /\ admin' = served("get_session_messages", uid, sid, NULL, 200, session_messages(db, sid, uid))
    /\ UNCHANGED <<db, turns, active>>

debug_session_messages(uid, sid) ==
    /\ MayServe
    /\ admin' = served("debug_session_messages", uid, sid, NULL, 200, debug_messages(db, sid))
    /\ UNCHANGED <<db, turns, active>>

\* UPDATE chat_messages SET is_deleted = TRUE WHERE session_id = ?, were it
\* a DELETE FROM chat_messages.
mark_deleted_for_good(messages, sid) == SelectSeq(messages, LAMBDA m : m.session_id # sid)
\* UPDATE chat_messages SET is_deleted = TRUE WHERE session_id = ?
mark_deleted(messages, sid) ==
    [i \in 1..Len(messages) |->
        IF messages[i].session_id = sid THEN [messages[i] EXCEPT !.is_deleted = TRUE]
        ELSE messages[i]]

\* The removal of the session row, were it left out.
remove_session_never(sessions, sid, uid) == sessions
\* DELETE FROM chat_sessions WHERE id = ? AND user_id = ?
remove_session(sessions, sid, uid) == {r \in sessions : ~(r.id = sid /\ r.user_id = uid)}

\* The removal of the session row, were its messages left as they are.
delete_session_keeping_messages(d, sid, uid) ==
    IF ~owns_session(d, sid, uid) THEN d
    ELSE [d EXCEPT !.sessions = remove_session(@, sid, uid)]
\* The UPDATE and the DELETE of delete_chat_session, and the commit.
delete_statements(d, sid, uid) ==
    [d EXCEPT !.messages = mark_deleted(@, sid),
              !.sessions = remove_session(@, sid, uid)]
\* The transaction of delete_chat_session: nothing for a session the caller
\* does not own, else both statements and the commit.
delete_session(d, sid, uid) ==
    IF ~owns_session(d, sid, uid) THEN d
    ELSE delete_statements(d, sid, uid)

\* DELETE /api/chat_sessions/{session_id}: 204 whether or not there was a
\* session to delete. The SELECT of a session the caller does not own needs
\* no write lock; the UPDATE of the owner's delete raises under a held lock,
\* and "except Exception" answers 500.
delete_chat_session(uid, sid) ==
    /\ MayServe
    /\ UNCHANGED <<turns, active>>
    /\ IF owns_session(db, sid, uid) /\ database_locked
       THEN /\ admin' = served("delete_chat_session", uid, sid, NULL, 500,
                               "Could not delete chat session")
            /\ UNCHANGED db
       ELSE /\ db' = delete_session(db, sid, uid)
            /\ admin' = served("delete_chat_session", uid, sid, NULL, 204, NULL)

\* "if not new_title", were it never to reject.
title_rejected_never(new_title) == FALSE
\* new_title = update_data.title.strip(); if not new_title: 400.
title_rejected(new_title) == new_title = ""

\* UPDATE chat_sessions SET [title = ?,] [system_prompt = ?,]
\* last_updated_at = ? WHERE id = ? AND user_id = ?
update_session(sessions, sid, uid, title, system_prompt, now) ==
    {IF r.id = sid /\ r.user_id = uid
     THEN [r EXCEPT !.title = IF title # NULL THEN strip(title) ELSE @,
                    !.system_prompt = IF system_prompt # NULL THEN system_prompt ELSE @,
                    !.last_updated_at = now]
     ELSE r : r \in sessions}

\* PATCH /api/chat_sessions/{session_id}: 400 for a title that is empty once
\* stripped and for a request without fields, 404 when the UPDATE matches no
\* row, else the updated row as ChatSessionInfo. The UPDATE is the first
\* statement: under a held write lock it raises whoever owns the session,
\* and "except Exception" answers 500.
update_chat_session(uid, sid, title, system_prompt) ==
    /\ MayServe
    /\ UNCHANGED <<turns, active>>
    /\ LET op == "update_chat_session"
           args == [title |-> title, system_prompt |-> system_prompt]
           d1 == [db EXCEPT !.sessions = update_session(@, sid, uid, title, system_prompt, db.clock),
                            !.clock = @ + 1]
           updated_row == CHOOSE r \in d1.sessions : r.id = sid
       IN  IF title # NULL /\ title_rejected(strip(title))
           THEN admin' = served(op, uid, sid, args, 400, "Title cannot be empty.") /\ UNCHANGED db
           ELSE IF title = NULL /\ system_prompt = NULL
           THEN admin' = served(op, uid, sid, args, 400, "No update fields provided") /\ UNCHANGED db
           ELSE IF database_locked
           THEN admin' = served(op, uid, sid, args, 500, "Could not update chat session")
                /\ UNCHANGED db
           ELSE IF ~owns_session(db, sid, uid)
           THEN admin' = served(op, uid, sid, args, 404, "Session not found or access denied")
                /\ UNCHANGED db
           ELSE admin' = served(op, uid, sid, args, 200, ChatSessionInfo(d1, updated_row))
                /\ db' = d1

\* The WHERE clause of the edit, were it to leave is_deleted out.
editable_deleted_or_not(m, message_id, uid) ==
    m.id = message_id /\ m.user_id = uid /\ m.role = "user"
\* The WHERE clause of the edit, were it to leave the role out.
editable_whatever_role(m, message_id, uid) ==
    m.id = message_id /\ m.user_id = uid /\ ~m.is_deleted
\* SELECT * FROM chat_messages WHERE id = ? AND user_id = ? AND role = 'user'
\* AND is_deleted = FALSE
editable(m, message_id, uid) ==
    m.id = message_id /\ m.user_id = uid /\ m.role = "user" /\ ~m.is_deleted

\* The status of the edit's rejection.
edit_rejection_status == 404

\* The UPDATE, were it to set the timestamp as well.
edit_message_restamping(messages, message_id, content, now) ==
    [i \in 1..Len(messages) |->
        IF messages[i].id = message_id
        THEN [messages[i] EXCEPT !.content = content, !.edited_at = now, !.timestamp = now]
        ELSE messages[i]]
\* UPDATE chat_messages SET content = ?, edited_at = ? WHERE id = ?
edit_message(messages, message_id, content, now) ==
    [i \in 1..Len(messages) |->
        IF messages[i].id = message_id
        THEN [messages[i] EXCEPT !.content = content, !.edited_at = now]
        ELSE messages[i]]

\* The body of a successful edit. updated_message.get("model_used") raises on
\* a sqlite3.Row, so "except Exception as resp_error" returns the fallback
\* dict on every success: no model_used (None in the response model) and
\* "attachments": [].
edited_message_response(m) ==
    [id |-> m.id, role |-> m.role, content |-> m.content, timestamp |-> m.timestamp,
     model_used |-> NULL, edited_at |-> m.edited_at, is_deleted |-> m.is_deleted,
     attachments |-> {}]

\* PATCH /api/chat_messages/{message_id}: 404 unless the row is the caller's
\* own, of role user and not deleted; else the content and edited_at are
\* written and the row is returned, without its attachments. Under a held
\* write lock the UPDATE raises and "except Exception" answers 500.
update_chat_message(uid, message_id, content) ==
    /\ MayServe
    /\ UNCHANGED <<turns, active>>
    /\ LET op == "update_chat_message"
           args == [content |-> content]
           d1 == [db EXCEPT !.messages = edit_message(@, message_id, content, db.clock),
                            !.clock = @ + 1]
           updated_message == CHOOSE m \in Range(d1.messages) : m.id = message_id
       IN  IF ~\E m \in Range(db.messages) : editable(m, message_id, uid)
           THEN admin' = served(op, uid, message_id, args, edit_rejection_status,
                                "Message not found or you don't have permission to edit it")
                /\ UNCHANGED db
           ELSE IF database_locked
           THEN admin' = served(op, uid, message_id, args, 500,
                                "Failed to update message: database is locked")
                /\ UNCHANGED db
           ELSE admin' = served(op, uid, message_id, args, 200, edited_message_response(updated_message))
                /\ db' = d1

\* ------------------ the edit and the delete, one database statement a step
\* Both handlers run their statements on a connection of their own, outside
\* any transaction until the first write. Followed statement by statement,
\* a request that has run its SELECT and not yet its write is pending. The
\* statements of one write transaction are one step: until the commit
\* nothing of them is seen.
PendingRequest(op, uid, target, args) == [op |-> op, user |-> uid, target |-> target, args |-> args]
MayArrive == Free /\ admin.ops + Cardinality(admin.pending) < MaxOps
\* The event loop while a handler of these endpoints is between two of its
\* statements.
Handler == "handler"
\* The handler, were it to await between its SELECT and its write.
loop_between_statements_given_away(p) == NULL
\* update_chat_message and delete_chat_session are "async def" without an
\* await, and sqlite3 is synchronous: the event loop stays with the handler
\* from its SELECT to its response, and no other request is served in
\* between.
loop_between_statements(p) == Handler
\* The response to a pending request.
answered(p, status, body) ==
    [served(p.op, p.user, p.target, p.args, status, body) EXCEPT !.pending = admin.pending \ {p}]

\* update_chat_message up to "if not message": the SELECT with the three
\* conditions, 404 without a row.
update_chat_message_select(uid, message_id, content) ==
    /\ MayArrive
    /\ UNCHANGED <<db, turns>>
    /\ LET p == PendingRequest("update_chat_message", uid, message_id, [content |-> content])
       IN  /\ p \notin admin.pending
           /\ IF ~\E m \in Range(db.messages) : editable(m, message_id, uid)
              THEN /\ admin' = served(p.op, uid, message_id, p.args, edit_rejection_status,
                                      "Message not found or you don't have permission to edit it")
                   /\ UNCHANGED active
              ELSE /\ admin' = [admin EXCEPT !.pending = @ \cup {p}]
                   /\ active' = loop_between_statements(p)

\* update_chat_message from the UPDATE on: "WHERE id = ?" and the commit,
\* then the reads of the response; "database is locked" is a 500.
update_chat_message_update(p) ==
    /\ active = loop_between_statements(p)
    /\ p \in admin.pending
    /\ p.op = "update_chat_message"
    /\ active' = NULL
    /\ UNCHANGED turns
    /\ LET d1 == [db EXCEPT !.messages = edit_message(@, p.target, p.args.content, db.clock),
                            !.clock = @ + 1]
           updated_message == CHOOSE m \in Range(d1.messages) : m.id = p.target
       IN  IF database_locked
           THEN admin' = answered(p, 500, "Failed to update message: database is locked")
                /\ UNCHANGED db
           ELSE admin' = answered(p, 200, edited_message_response(updated_message))
                /\ db' = d1

\* delete_chat_session up to "if not cursor.fetchone()": the SELECT of the
\* caller's row, 204 without one.
delete_chat_session_select(uid, sid) ==
    /\ MayArrive
    /\ UNCHANGED <<db, turns>>
    /\ LET p == PendingRequest("delete_chat_session", uid, sid, NULL)
       IN  /\ p \notin admin.pending
           /\ IF ~owns_session(db, sid, uid)
              THEN /\ admin' = served(p.op, uid, sid, NULL, 204, NULL)
                   /\ UNCHANGED active
              ELSE /\ admin' = [admin EXCEPT !.pending = @ \cup {p}]
                   /\ active' = loop_between_statements(p)

\* delete_chat_session from the UPDATE on: the messages of the session are
\* marked, the caller's row is removed, and both are committed; "database is
\* locked" is a 500.
delete_chat_session_commit(p) ==
    /\ active = loop_between_statements(p)
    /\ p \in admin.pending
    /\ p.op = "delete_chat_session"
    /\ active' = NULL
    /\ UNCHANGED turns
    /\ IF database_locked
       THEN /\ admin' = answered(p, 500, "Could not delete chat session")
            /\ UNCHANGED db
       ELSE /\ admin' = answered(p, 204, NULL)
            /\ db' = delete_statements(db, p.target, p.user)

\* The attachment ids a download names: those of the rows there are, and
\* one that no row has.
OpAttachmentIds == {a.id : a \in db.attachments} \cup {db.next_id}

\* SELECT a.*, m.user_id, m.session_id FROM chat_attachments a
\* JOIN chat_messages m ON a.message_id = m.id WHERE a.id = ?
joined_attachments(d, attachment_id) ==
    {[a |-> a, m |-> m] : a \in {x \in d.attachments : x.id = attachment_id},
                          m \in {y \in Range(d.messages) :
                                    \E x \in d.attachments : x.id = attachment_id /\ x.message_id = y.id}}

\* The check of the caller, were it left out.
may_download_whoever(attachment, uid) == TRUE
\* attachment["user_id"] != current_user.id is a 403: of the two columns
\* named user_id in the row, the lookup by name takes the first, a.user_id.
may_download(attachment, uid) == attachment.a.user_id = uid

\* GET /api/chat/attachments/{attachment_id}: 404 when the join has no row,
\* 403 for another caller, 404 when the file is gone from the disk
\* (file_exists), else the file.
download_attachment(uid, attachment_id) ==
    /\ MayServe
    /\ UNCHANGED <<db, turns, active>>
    /\ \E file_exists \in BOOLEAN :
        LET op == "download_attachment"
            rows == joined_attachments(db, attachment_id)
            attachment == CHOOSE j \in rows : TRUE
        IN  IF rows = {}
            THEN /\ file_exists
                 /\ admin' = served(op, uid, attachment_id, NULL, 404, [detail |-> "Attachment not found"])
            ELSE IF ~may_download(attachment, uid)
            THEN /\ file_exists
                 /\ admin' = served(op, uid, attachment_id, NULL, 403,
                                    [detail |-> "You don't have permission to access this attachment"])
            ELSE IF ~file_exists
            THEN admin' = served(op, uid, attachment_id, NULL, 404,
                                 [detail |-> "Attachment file not found"])
            ELSE admin' = served(op, uid, attachment_id, NULL, 200,
                                 [file |-> attachment.a.temp_file_id])

\* ------------------------------------------------------------ the system
Next ==
    \E t \in Turns :
        \/ chat_begin(t)
        \/ chat_default(t)
        \/ chat_return(t)
        \/ custom_lookup(t)
        \/ custom_assistant_start(t)
        \/ custom_sleep(t)
        \/ custom_retrieve(t)
        \/ custom_run_done(t)
        \/ custom_gpt(t)
        \/ stream_begin(t)
        \/ stream_route(t)
        \/ stream_iter(t)
        \/ stream_chunk_resume(t)
        \/ stream_sleep_resume(t)
        \/ stream_error_save(t)
        \/ stream_return(t)
        \/ stream_custom_resume(t)
        \/ stream_end(t)
        \/ stream_outer_save(t)
        \/ stream_exit(t)
        \/ stream_cancel(t)

Spec == Init /\ [][Next]_vars

\* The request followed next to the session and message endpoints: the first
\* one, on the default model, for a chat, without attachments, in the
\* session "s1".
SessionTurns == {FirstTurn}
InScope(t) ==
    /\ turns[t].model_id = NULL
    /\ turns[t].purpose \in {NULL, "chat"}
    /\ turns[t].attachments = << >>
    /\ turns[t].session_id \in {NULL, "s1"}

\* The same requests, served together with the session and message
\* endpoints.
SessionNext ==
    \/ \E t \in SessionTurns :
          /\ \/ chat_begin(t)
             \/ chat_default(t)
             \/ stream_begin(t)
             \/ stream_route(t)
             \/ stream_iter(t)
             \/ stream_chunk_resume(t)
             \/ stream_sleep_resume(t)
             \/ stream_error_save(t)
             \/ stream_end(t)
             \/ stream_outer_save(t)
             \/ stream_exit(t)
             \/ stream_cancel(t)
          /\ InScope(t)'
    \/ \E uid \in Users : list_chat_sessions(uid)
    \/ \E uid \in Users, sid \in OpSessionIds : get_session_messages(uid, sid)
    \/ \E uid \in Users, sid \in OpSessionIds : debug_session_messages(uid, sid)
    \/ \E uid \in Users, sid \in OpSessionIds : delete_chat_session(uid, sid)
    \/ \E uid \in Users, sid \in OpSessionIds, title \in Titles, system_prompt \in SystemPrompts :
          update_chat_session(uid, sid, title, system_prompt)
    \/ \E uid \in Users, message_id \in OpMessageIds, content \in EditContents :
          update_chat_message(uid, message_id, content)

SessionSpec == Init /\ [][SessionNext]_vars

\* Two blocking requests on the default model, one after the other in one
\* session, with attachments, served together with the update of a session
\* and the download of an attachment.
InFollowUpScope(t) ==
    /\ turns[t].model_id = NULL
    /\ turns[t].purpose \in {NULL, "chat"}
    /\ turns[t].session_id \in {NULL, "s1"}

FollowUpNext ==
    \/ \E t \in Turns :
          /\ \/ chat_begin(t)
             \/ chat_default(t)
          /\ InFollowUpScope(t)'
    \/ \E uid \in Users, sid \in OpSessionIds, title \in Titles, system_prompt \in SystemPrompts :
          update_chat_session(uid, sid, title, system_prompt)
    \/ \E uid \in Users, attachment_id \in OpAttachmentIds : download_attachment(uid, attachment_id)

FollowUpSpec == Init /\ [][FollowUpNext]_vars

\* The requests to the stored assistant "m_asst", on both endpoints: the
\* steps such a request can take.
InPollScope(t) == turns[t].model_id = "m_asst"

PollNext ==
    \E t \in Turns :
        /\ \/ chat_begin(t)
           \/ chat_return(t)
           \/ custom_lookup(t)
           \/ custom_assistant_start(t)
           \/ custom_sleep(t)
           \/ custom_retrieve(t)
           \/ custom_run_done(t)
           \/ stream_begin(t)
           \/ stream_route(t)
           \/ stream_return(t)
           \/ stream_custom_resume(t)
           \/ stream_end(t)
           \/ stream_outer_save(t)
           \/ stream_exit(t)
           \/ stream_cancel(t)
        /\ InPollScope(t)'

\* The event loop goes on with the coroutine it runs, and a sleep that is
\* over resumes its coroutine once the loop is free. Nothing is assumed of
\* the clients: no request has to arrive, no event has to be taken.
PollFairness ==
    \A t \in Turns :
        /\ WF_vars(chat_return(t) /\ InPollScope(t)')
        /\ WF_vars(custom_lookup(t) /\ InPollScope(t)')
        /\ WF_vars(custom_assistant_start(t) /\ InPollScope(t)')
        /\ WF_vars(custom_sleep(t) /\ InPollScope(t)')
        /\ WF_vars(custom_retrieve(t) /\ InPollScope(t)')
        /\ WF_vars(custom_run_done(t) /\ InPollScope(t)')
        /\ WF_vars(stream_route(t) /\ InPollScope(t)')
        /\ WF_vars(stream_return(t) /\ InPollScope(t)')
        /\ WF_vars(stream_end(t) /\ InPollScope(t)')

PollSpec == Init /\ [][PollNext]_vars /\ PollFairness

\* Every request, with the conversation on a stored session: chats without
\* attachments whose history is a list of messages, and one update of a
\* session that sets its title and its system prompt.
InAppendScope(t) ==
    /\ turns[t].purpose \in {NULL, "chat"}
    /\ turns[t].attachments = << >>
    /\ turns[t].session_id # TitleGenId
    /\ turns[t].request \in {NULL, "valid", "bad_tail"}

AppendNext ==
    \/ \E t \in Turns :
          /\ \/ chat_begin(t)
             \/ chat_default(t)
             \/ chat_return(t)
             \/ custom_lookup(t)
             \/ custom_assistant_start(t)
             \/ custom_sleep(t)
             \/ custom_retrieve(t)
             \/ custom_run_done(t)
             \/ custom_gpt(t)
             \/ stream_begin(t)
             \/ stream_route(t)
             \/ stream_iter(t)
             \/ stream_chunk_resume(t)
             \/ stream_sleep_resume(t)
             \/ stream_error_save(t)
             \/ stream_return(t)
             \/ stream_custom_resume(t)
             \/ stream_end(t)
             \/ stream_outer_save(t)
             \/ stream_exit(t)
             \/ stream_cancel(t)
          /\ InAppendScope(t)'
    \/ \E uid \in Users, sid \in OpSessionIds :
          /\ update_chat_session(uid, sid, " My chat ", "Be brief.")
          /\ admin'.ops = 1

AppendSpec == Init /\ [][AppendNext]_vars

\* The first request of SessionSpec, served together with edits and deletes
\* that are followed one database statement a step: the handler keeps the
\* event loop between its statements, so the statements of two requests
\* follow each other request by request.
StatementNext ==
    \/ \E t \in SessionTurns :
          /\ \/ chat_begin(t)
             \/ chat_default(t)
             \/ stream_begin(t)
             \/ stream_route(t)
             \/ stream_iter(t)
             \/ stream_chunk_resume(t)
             \/ stream_sleep_resume(t)
             \/ stream_error_save(t)
             \/ stream_end(t)
             \/ stream_outer_save(t)
             \/ stream_exit(t)
             \/ stream_cancel(t)
          /\ InScope(t)'
    \/ \E uid \in Users, message_id \in OpMessageIds, content \in EditContents :
          update_chat_message_select(uid, message_id, content)
    \/ \E p \in admin.pending : update_chat_message_update(p)
    \/ \E uid \in Users, sid \in OpSessionIds : delete_chat_session_select(uid, sid)
    \/ \E p \in admin.pending : delete_chat_session_commit(p)

StatementSpec == Init /\ [][StatementNext]_vars

\* ---------------------------------------------------------- observations
\* The rows of chat_messages a request wrote, by role, in its session.
RowsOf(t, role) ==
    {i \in 1..Len(db.messages) :
        /\ db.messages[i].id \in Range(turns[t].saved)
        /\ db.messages[i].role = role
        /\ db.messages[i].session_id = turns[t].session_id}
NewUser(t) == Cardinality(RowsOf(t, "user"))
NewAssistant(t) == Cardinality(RowsOf(t, "assistant"))
\* Every row the request wrote is in the session it resolved.
AllInSession(t) ==
    \A i \in 1..Len(db.messages) :
        db.messages[i].id \in Range(turns[t].saved)
            => db.messages[i].session_id = turns[t].session_id

\* The contents the handlers write for a failure.
ErrorContents ==
    {"Error communicating with AI model: " \o UpstreamError,
     "Error: No response choices received from OpenAI for custom GPT model.",
     "An unexpected server error occurred: unexpected",
     "An unexpected server error occurred: maximum recursion depth exceeded"}
    \cup {"Assistant run failed. Status: " \o st : st \in RunStatuses}
ErrorTagged(i) == db.messages[i].content \in ErrorContents
NewErrorAssistant(t) == Cardinality({i \in RowsOf(t, "assistant") : ErrorTagged(i)})

Finished(t) == turns[t].pc = "finished"
BlockingOk(t) == turns[t].kind = "chat" /\ Finished(t) /\ turns[t].status = 200
Types(evs) == [i \in 1..Len(evs) |-> evs[i].type]
CountType(evs, type) == Cardinality({i \in 1..Len(evs) : evs[i].type = type})

\* ------------------------------------------------------------------ claims
\* C1 as stated: after a blocking turn that returns successfully, exactly one
\* new user message and exactly one new assistant message exist in the
\* resolved session.
C1_SuccessOneUserOneAssistant ==
    \A t \in Turns : BlockingOk(t) => NewUser(t) = 1 /\ NewAssistant(t) = 1

\* C1 amended: a blocking turn that returns successfully and is no
\* title-generation request leaves exactly one new user message in the
\* resolved session and at most one new assistant message: one when the save
\* of the reply succeeded, none when it failed (the failure is only logged);
\* a title-generation request that returns successfully leaves no message.
C1_SuccessOneUserAtMostOneAssistant ==
    \A t \in Turns :
        BlockingOk(t) =>
            /\ AllInSession(t)
            /\ IF turns[t].title_generation_mode
               THEN turns[t].saved = << >>
               ELSE /\ NewUser(t) = 1
                    /\ turns[t].assistant_save \in {"ok", "failed"}
                    /\ NewAssistant(t) = IF turns[t].assistant_save = "ok" THEN 1 ELSE 0

C1_Witness ==
    \E t \in Turns :
        /\ BlockingOk(t) /\ turns[t].model_id # NULL /\ ~turns[t].title_generation_mode
        /\ NewUser(t) = 1 /\ NewAssistant(t) = 1

\* C2: after a blocking turn whose upstream call fails, exactly one new user
\* message and exactly one error-tagged assistant message exist in the
\* session, and the failure is surfaced to the caller (title-generation
\* requests, which save nothing by design, left aside).
C2_FailureOneErrorMessage ==
    \A t \in Turns :
        (turns[t].kind = "chat" /\ Finished(t) /\ turns[t].upstream_failed
            /\ ~turns[t].title_generation_mode) =>
            /\ turns[t].status >= 500
            /\ NewUser(t) = 1
            /\ NewAssistant(t) = 1
            /\ NewErrorAssistant(t) = 1

\* C3: a streaming turn persists at most one assistant message, whatever
\* combination of upstream failure, save failure and catch-all failure occurs.
C3_StreamAtMostOneAssistant ==
    \A t \in Turns : turns[t].kind = "stream" => NewAssistant(t) <= 1

C3_Witness ==
    \E t \in Turns :
        /\ turns[t].kind = "stream" /\ Finished(t)
        /\ turns[t].upstream_failed /\ turns[t].unexpected
        /\ NewAssistant(t) = 1

\* C4: a streaming turn never emits the done event unless an assistant
\* message (success or error) has been persisted for that turn first; stated
\* here for the turns in which no save of an assistant message failed.
C4_DoneOnlyAfterSave ==
    \A t \in Turns :
        (turns[t].kind = "stream" /\ CountType(turns[t].events, "done") > 0
            /\ turns[t].assistant_save # "failed")
            => NewAssistant(t) >= 1

\* C5: the event sequence of every streaming turn that ran to its end ends
\* with exactly one done event, which carries the resolved session id.
C5_DoneIsLast ==
    \A t \in Turns :
        (turns[t].kind = "stream" /\ Finished(t) /\ ~turns[t].cancelled) =>
            /\ CountType(turns[t].events, "done") = 1
            /\ turns[t].events[Len(turns[t].events)] = Event("done", turns[t].session_id)

\* A default-model streaming turn that ran to its end and whose upstream
\* call raised.
DefaultStreamFailed(t) ==
    /\ turns[t].kind = "stream" /\ turns[t].model_id = NULL
    /\ Finished(t) /\ ~turns[t].cancelled
    /\ turns[t].upstream_failed

\* The events are k chunk events, one error event and one done event, in
\* this order, k being the number of chunks with content the upstream
\* delivered (a chunk of the model holds one character or the empty string).
ChunksErrorDone(t) ==
    LET evs == turns[t].events
        k == CountType(evs, "chunk")
    IN  /\ Len(turns[t].temp_response_buffer) <= k
        /\ k <= turns[t].nchunks
        /\ Len(evs) = k + 2
        /\ \A i \in 1..k : evs[i].type = "chunk"
        /\ evs[k + 1].type = "error"
        /\ evs[k + 2] = Event("done", turns[t].session_id)

\* C6 as stated: when the upstream call of a default-model streaming turn
\* raises after k chunks, the client receives k chunk events, one error event
\* and one done event, and the store holds one new user message and one new
\* error-tagged assistant message; stated here for the turns whose history
\* ends with a user message and that meet no further exception.
C6_UpstreamRaiseAfterChunks ==
    \A t \in Turns :
        (DefaultStreamFailed(t) /\ turns[t].request = "valid" /\ ~turns[t].unexpected) =>
            /\ ChunksErrorDone(t)
            /\ NewUser(t) = 1
            /\ NewAssistant(t) = 1 /\ NewErrorAssistant(t) = 1

\* C6 amended: when the upstream call of a default-model streaming turn
\* raises after k chunks, the client receives k chunk events, one error event
\* and one done event, and the store holds one new user message and, when
\* the save of the error message succeeds, one new error-tagged assistant
\* message; when that save fails the turn adds no assistant message. Stated
\* for the same turns as the original.
C6_UpstreamRaiseAfterChunksSaved ==
    \A t \in Turns :
        (DefaultStreamFailed(t) /\ turns[t].request = "valid" /\ ~turns[t].unexpected) =>
            /\ ChunksErrorDone(t)
            /\ NewUser(t) = 1
            /\ turns[t].assistant_save \in {"ok", "failed"}
            /\ NewAssistant(t) = IF turns[t].assistant_save = "ok" THEN 1 ELSE 0
            /\ NewErrorAssistant(t) = NewAssistant(t)

\* The upstream call raised after two chunks and the save of the error
\* message failed: two chunk events, the error event and the done event
\* were sent, and the turn has its user message and no assistant message.
C6_Witness ==
    \E t \in Turns :
        /\ DefaultStreamFailed(t) /\ turns[t].request = "valid" /\ ~turns[t].unexpected
        /\ CountType(turns[t].events, "chunk") = 2
        /\ turns[t].assistant_save = "failed"
        /\ NewUser(t) = 1 /\ NewAssistant(t) = 0

\* C7: when the client disconnects at a suspension point of a streaming turn
\* after the user message was saved, an assistant message is still persisted
\* for the turn.
C7_CancelStillSaves ==
    \A t \in Turns :
        (turns[t].kind = "stream" /\ turns[t].cancelled /\ turns[t].user_save = "ok")
            => NewAssistant(t) >= 1

\* C8: when persisting the user message fails, the turn is aborted before any
\* upstream call: the blocking path raises an error to the caller, the
\* streaming path emits an error event and attempts no completion, and no
\* assistant message is persisted for the turn.
C8_UserSaveFailureAborts ==
    \A t \in Turns :
        turns[t].user_save = "failed" =>
            /\ turns[t].upstream = << >>
            /\ turns[t].saved = << >>
            /\ turns[t].assistant_save = "none"
            /\ turns[t].kind = "chat" => Finished(t) /\ turns[t].status = 500
            /\ turns[t].kind = "stream" =>
                /\ turns[t].pc \in {"stream_exit", "finished"}
                /\ Types(turns[t].events) = << "error" >>

C8_Witness ==
    /\ \E t \in Turns : turns[t].kind = "stream" /\ turns[t].user_save = "failed" /\ Finished(t)
    /\ \E t \in Turns : turns[t].kind = "chat" /\ turns[t].user_save = "failed" /\ Finished(t)

\* C9: a turn whose message list is empty or whose last message is not from
\* the user persists nothing and makes no upstream call, on the blocking and
\* on the streaming path.
C9_InvalidTurnRejected ==
    \A t \in Turns :
        turns[t].request \in {"empty", "bad_tail"} =>
            /\ turns[t].saved = << >>
            /\ turns[t].upstream = << >>

\* The timestamps of the appends to a session id, in the order of the appends.
AppendsTo(sid) ==
    LET rows == SelectSeq(db.messages, LAMBDA m : m.session_id = sid)
    IN  [i \in 1..Len(rows) |-> rows[i].timestamp]
AppendedSessions == {db.messages[i].session_id : i \in 1..Len(db.messages)}

\* C10: after N >= 1 appends to the same new session id there is exactly one
\* session row for it, whose created_at is the timestamp of the first append
\* and whose last_updated_at is the timestamp of the Nth.
C10_OneRowFirstAndLastAppend ==
    \A sid \in AppendedSessions :
        LET rows == {r \in db.sessions : r.id = sid}
            ts == AppendsTo(sid)
        IN  /\ Cardinality(rows) = 1
            /\ \A r \in rows : r.created_at = ts[1] /\ r.last_updated_at = ts[Len(ts)]

C10_Witness ==
    \E sid \in AppendedSessions :
        /\ Len(AppendsTo(sid)) >= 3
        /\ \E r \in db.sessions :
            r.id = sid /\ r.created_at = AppendsTo(sid)[1] /\ r.last_updated_at > r.created_at

\* ------------------------------------- claims on sessions and messages
Messages == Range(db.messages)
\* A step in which a handler of the session and message endpoints serves a
\* request of kind op.
Serves(op) == admin'.ops = admin.ops + 1 /\ admin'.op = op
HasRow(sid) == \E r \in db.sessions : r.id = sid

\* Every session row was created by an append that persisted its message,
\* and every message that is not deleted has a session row.
RowsAndMessagesAgree ==
    /\ \A r \in db.sessions :
          \E m \in Messages : m.session_id = r.id /\ m.timestamp = r.created_at
    /\ \A m \in Messages : ~m.is_deleted => HasRow(m.session_id)
\* A step of a request that creates or refreshes a session row appends, in
\* the same step, a message of that session with the row's timestamp.
UpsertComesWithMessage ==
    \A r \in db'.sessions :
        (r \notin db.sessions /\ admin' = admin) =>
            /\ Len(db'.messages) = Len(db.messages) + 1
            /\ db'.messages[Len(db'.messages)].session_id = r.id
            /\ db'.messages[Len(db'.messages)].timestamp = r.last_updated_at

\* C11: the session upsert and the message insert commit together: in every
\* reachable state, also after a save that failed, no session row exists that
\* an append without a persisted message created or refreshed, and every
\* message that is not deleted belongs to a session id with a session row.
C11_UpsertAndInsertAtomic ==
    [] RowsAndMessagesAgree /\ [][UpsertComesWithMessage]_vars

\* A request whose assistant save failed after its user save, its session
\* deleted since and its session row gone.
C11_Witness ==
    \E t \in Turns :
        /\ turns[t].user_save = "ok"
        /\ turns[t].assistant_save = "failed"
        /\ admin.op = "delete_chat_session" /\ admin.user = turns[t].user
        /\ ~HasRow(turns[t].session_id)
        /\ \E m \in Messages : m.session_id = turns[t].session_id /\ m.is_deleted

\* The ids in a list of messages.
IdsOf(ms) == {ms[i].id : i \in 1..Len(ms)}
\* A deleted message is in no result of get_session_messages, and is in the
\* debug read with its flag.
DeletedHiddenButKept ==
    \A m \in Messages :
        m.is_deleted =>
            /\ \A uid \in Users : m.id \notin IdsOf(session_messages(db, m.session_id, uid))
            /\ m \in Range(debug_messages(db, m.session_id).messages)
            /\ m \in Range(debug_messages(db, m.session_id).deleted_messages)
\* No step removes a row of chat_messages or clears its is_deleted flag.
RowsStay ==
    /\ Len(db'.messages) >= Len(db.messages)
    /\ \A i \in 1..Len(db.messages) :
          /\ db'.messages[i].id = db.messages[i].id
          /\ db.messages[i].is_deleted => db'.messages[i].is_deleted

\* C12: a soft-deleted message is absent from every later result of
\* get_session_messages, while its row and its is_deleted flag stay in
\* storage and are returned by debug_session_messages; no operation removes
\* a message row.
C12_SoftDeleteHidesAndKeeps ==
    [] DeletedHiddenButKept /\ [][RowsStay]_vars

\* A session deleted while its stream was suspended and created again by
\* the assistant save: the owner's list has the assistant message and not
\* the deleted user message, which the debug read has just returned.
C12_Witness ==
    /\ admin.op = "debug_session_messages"
    /\ admin.body.deleted_count > 0
    /\ \E m \in Messages :
          /\ m.is_deleted
          /\ m.session_id = admin.target
          /\ session_messages(db, m.session_id, m.user_id) # << >>

\* The row of chat_messages with this id, in a list of rows.
RowsWithId(messages, id) == {m \in Range(messages) : m.id = id}
\* The three conditions of an edit, on the rows before the step.
EditAllowed ==
    \E m \in RowsWithId(db.messages, admin'.target) :
        m.user_id = admin'.user /\ m.role = "user" /\ ~m.is_deleted
\* An edit succeeds exactly when allowed; then it writes the new content and
\* edited_at; else it changes no row.
EditStep ==
    Serves("update_chat_message") =>
        /\ admin'.status = 200 <=> EditAllowed
        /\ EditAllowed =>
              \A m \in RowsWithId(db'.messages, admin'.target) :
                  m.content = admin'.args.content /\ m.edited_at = db.clock
        /\ ~EditAllowed => admin'.status >= 400 /\ db'.messages = db.messages

\* C13 as stated: update_chat_message succeeds if and only if the caller is
\* the message's author, the message's role is user and the message is not
\* deleted; with any one of the three violated the request is rejected and
\* the message's content and edited_at stay as they were.
C13_EditOnlyOwnLiveUserMessage == [][EditStep]_vars

\* The write lock of the database is held by a request before the step.
LockedBefore == \E u \in Turns : turns[u].cursor = "open transaction"
\* An edit succeeds only when allowed; an allowed edit succeeds unless the
\* write lock is held, and then it is answered 500; a successful edit writes
\* the new content and edited_at, every other edit changes no row.
EditStepUnlessLocked ==
    Serves("update_chat_message") =>
        /\ admin'.status = 200 => EditAllowed
        /\ ~EditAllowed => admin'.status \in 400..499
        /\ (EditAllowed /\ ~LockedBefore) => admin'.status = 200
        /\ (EditAllowed /\ LockedBefore) => admin'.status = 500
        /\ admin'.status = 200 =>
              \A m \in RowsWithId(db'.messages, admin'.target) :
                  m.content = admin'.args.content /\ m.edited_at = db.clock
        /\ admin'.status # 200 => db'.messages = db.messages

\* C13 amended: update_chat_message succeeds only if the caller is the
\* message's author, the message's role is user and the message is not
\* deleted; when the three hold it succeeds unless a streaming request
\* suspended after a save that raised holds the write lock of the database,
\* and then it is answered 500; every rejection, for a violated condition
\* or for the lock, leaves content and edited_at of the message as they were.
C13_EditOnlyOwnLiveUserMessageUnlessLocked == [][EditStepUnlessLocked]_vars

\* The author's edit of a user message of theirs that is not deleted, while
\* the stream that wrote it is suspended with the write lock: answered 500,
\* the row as it was written.
C13_Witness ==
    /\ admin.op = "update_chat_message"
    /\ admin.status = 500
    /\ database_locked
    /\ \E m \in RowsWithId(db.messages, admin.target) :
          /\ m.user_id = admin.user /\ m.role = "user" /\ ~m.is_deleted
          /\ m.content # admin.args.content /\ m.edited_at = 0

\* C14 as stated: the edit of an existing message that is not deleted, by
\* another user or of a role other than user, fails with 403 (Forbidden);
\* the edit of an absent or deleted message fails with 404 (NotFound).
C14_ForbiddenOrNotFound ==
    [][Serves("update_chat_message") /\ ~EditAllowed =>
          IF \E m \in RowsWithId(db.messages, admin'.target) : ~m.is_deleted
          THEN admin'.status = 403
          ELSE admin'.status = 404]_vars

\* The content of the earliest user message of a session that is not
\* deleted; NULL when there is none.
FirstLiveUserContent(sid) ==
    LET rows == SelectSeq(db.messages,
                          LAMBDA m : m.session_id = sid /\ m.role = "user" /\ ~m.is_deleted)
    IN  IF rows = << >> THEN NULL ELSE rows[1].content
Ellipsis == "..."
Shortened(c) == IF Len(c) <= 50 THEN c ELSE SubSeq(c, 1, 47) \o Ellipsis
Placeholder(sid) ==
    "Chat Session (" \o (IF Len(sid) <= 6 THEN sid ELSE SubSeq(sid, 1, 6)) \o "...)"
\* The title the claim as stated lets a session row show.
StatedTitle(r) ==
    IF r.title # NULL THEN r.title ELSE Shortened(FirstLiveUserContent(r.id))
\* The title a session row shows: the stated one, and the placeholder when
\* there is no such message or its content is empty.
ShownTitle(r) ==
    IF r.title # NULL THEN r.title
    ELSE IF FirstLiveUserContent(r.id) \in {NULL, ""} THEN Placeholder(r.id)
    ELSE Shortened(FirstLiveUserContent(r.id))
RowOf(sid) == CHOOSE r \in db.sessions : r.id = sid
\* The titles of list_chat_sessions, for every user.
ListedTitles(title(_)) ==
    \A uid \in Users :
        LET body == session_list(db, uid)
        IN  /\ {body[i].session_id : i \in 1..Len(body)}
                  = {r.id : r \in {o \in db.sessions : o.user_id = uid}}
            /\ \A i \in 1..Len(body) : body[i].title = title(RowOf(body[i].session_id))

\* C15 as stated: a session without an explicit title shows the content of
\* its first user message that is not deleted, whole up to 50 characters and
\* else its first 47 characters and an ellipsis; an explicit title is shown
\* whatever the messages are.
C15_TitleOfFirstMessage ==
    \A r \in db.sessions :
        (r.title # NULL \/ FirstLiveUserContent(r.id) # NULL) =>
            ChatSessionInfo(db, r).title = StatedTitle(r)

\* C15, amended: the same for a first message whose content is not empty; a
\* session without an explicit title whose first user message that is not
\* deleted is empty, or which has none, shows "Chat Session (" and the first
\* six characters of its id and "...)". list_chat_sessions and the response
\* of update_chat_session show the same title.
C15_TitleOfFirstMessageOrPlaceholder ==
    /\ [] ListedTitles(ShownTitle)
    /\ [][Serves("update_chat_session") /\ admin'.status = 200 =>
            \A r \in db'.sessions :
                r.id = admin'.target => admin'.body.title = ShownTitle(r)']_vars

\* A list just served with the title of a first message of 51 characters,
\* cut to 47 and an ellipsis.
C15_Witness ==
    /\ admin.op = "list_chat_sessions"
    /\ \E i \in 1..Len(admin.body) :
          LET r == RowOf(admin.body[i].session_id)
          IN  /\ HasRow(admin.body[i].session_id)
              /\ r.title = NULL
              /\ FirstLiveUserContent(r.id) # NULL
              /\ Len(FirstLiveUserContent(r.id)) = 51
              /\ admin.body[i].title = SubSeq(FirstLiveUserContent(r.id), 1, 47) \o Ellipsis
              /\ Len(admin.body[i].title) = 50

\* The rows of chat_attachments of the user message a request saved.
LinkedFiles(t) ==
    {a.temp_file_id : a \in {b \in db.attachments : b.message_id = turns[t].saved[1]}}
\* A blocking request with attachments whose user message was saved.
SavedWithAttachments(t) ==
    /\ turns[t].kind = "chat"
    /\ turns[t].attachments # << >>
    /\ turns[t].user_save = "ok"
\* The request went on after the save of its user message: it is still
\* running, or it ended at the model (an answer, an upstream failure, a
\* failure of the custom model).
WentOn(t) ==
    \/ ~Finished(t)
    \/ turns[t].status = 200
    \/ turns[t].upstream # << >>
    \/ turns[t].model_id # NULL

\* C16: the save of a user message with attachment references of which only
\* some resolve to a stored file succeeds: exactly the resolving references
\* become attachment rows of the message, the others are skipped, and the
\* request goes on (the upload directory can be listed and the inserts into
\* chat_attachments commit).
C16_ResolvingAttachmentsLinked ==
    \A t \in Turns :
        (SavedWithAttachments(t) /\ ~turns[t].listdir_failed
            /\ turns[t].attachments_save # "failed") =>
            /\ LinkedFiles(t) = Range(turns[t].attachments) \cap UploadedFiles
            /\ turns[t].attachments_save = "ok"
            /\ WentOn(t)

\* A request with one resolving and one dangling reference, answered with
\* 200, its message with exactly one attachment row.
C16_Witness ==
    \E t \in Turns :
        /\ SavedWithAttachments(t)
        /\ ~turns[t].listdir_failed
        /\ Range(turns[t].attachments) \ UploadedFiles # {}
        /\ Range(turns[t].attachments) \cap UploadedFiles # {}
        /\ BlockingOk(t)
        /\ Cardinality({a \in db.attachments : a.message_id = turns[t].saved[1]}) = 1

\* C17 as stated: when the upload directory cannot be listed while the
\* attachments are linked, the save of the message has failed: the request
\* ends with 500 before any upstream call.
C17_UnlistableDirectoryAborts ==
    \A t \in Turns :
        (turns[t].kind = "chat" /\ turns[t].attachments # << >> /\ turns[t].listdir_failed
            /\ Finished(t)) =>
            /\ turns[t].status = 500
            /\ turns[t].upstream = << >>

\* The messages of a session are all marked deleted.
AllDeleted(d, sid) == \A m \in Range(d.messages) : m.session_id = sid => m.is_deleted
\* A delete answers 204; after it the caller owns no row of that id; the
\* delete of an owned session marks every message of the session, and the
\* delete of a session the caller does not own (the second call of two in a
\* row) changes nothing.
DeleteStep ==
    Serves("delete_chat_session") =>
        LET sid == admin'.target
            uid == admin'.user
            owned == \E r \in db.sessions : r.id = sid /\ r.user_id = uid
        IN  /\ admin'.status = 204
            /\ ~\E r \in db'.sessions : r.id = sid /\ r.user_id = uid
            /\ owned => AllDeleted(db', sid)
            /\ ~owned => db' = db
\* delete_session twice is delete_session once.
DeleteTwiceIsOnce ==
    \A uid \in Users, sid \in OpSessionIds :
        delete_session(delete_session(db, sid, uid), sid, uid) = delete_session(db, sid, uid)

\* C18 as stated: delete_chat_session is idempotent for the owner: any
\* number of calls in a row succeed; after the first every message of the
\* session is marked deleted and the session row is gone, and the later
\* calls change nothing.
C18_DeleteIdempotent ==
    [] DeleteTwiceIsOnce /\ [][DeleteStep]_vars

\* A delete of a session the caller owns is answered 500 and changes nothing
\* while the write lock is held; every other delete is answered 204, and
\* after it the caller owns no row of that id, the delete of an owned
\* session having marked every message of the session and the delete of a
\* session the caller does not own having changed nothing.
DeleteStepUnlessLocked ==
    Serves("delete_chat_session") =>
        LET sid == admin'.target
            uid == admin'.user
            owned == \E r \in db.sessions : r.id = sid /\ r.user_id = uid
        IN  /\ admin'.status = IF owned /\ LockedBefore THEN 500 ELSE 204
            /\ admin'.status = 500 => db' = db
            /\ admin'.status = 204 =>
                  /\ ~\E r \in db'.sessions : r.id = sid /\ r.user_id = uid
                  /\ owned => AllDeleted(db', sid)
                  /\ ~owned => db' = db

\* C18 amended: a call of delete_chat_session by the owner succeeds unless a
\* streaming request suspended after a save that raised holds the write
\* lock of the database; then it is answered 500 and changes nothing, and
\* the owner calls again. After the first call that succeeds every message
\* of the session is marked deleted and the session row is gone; every
\* later call succeeds, lock or no lock, and changes nothing.
C18_DeleteIdempotentUnlessLocked ==
    [] DeleteTwiceIsOnce /\ [][DeleteStepUnlessLocked]_vars

\* Two deletes of the same session in a row by its owner: the first
\* answered 500 under the write lock of the suspended stream, the second,
\* after the stream has ended, answered 204 with the session's messages
\* marked and its row gone.
C18_Witness ==
    /\ admin.ops = 2
    /\ admin.op = "delete_chat_session" /\ admin.status = 204
    /\ admin.prev = [op |-> "delete_chat_session", user |-> admin.user,
                     target |-> admin.target, status |-> 500]
    /\ \E m \in Messages : m.session_id = admin.target /\ m.user_id = admin.user
    /\ AllDeleted(db, admin.target)
    /\ ~HasRow(admin.target)

\* C19: delete_chat_session on a session that does not exist or that another
\* user owns answers 204 and leaves every session row and every message as
\* it was.
C19_ForeignDeleteChangesNothing ==
    [][(Serves("delete_chat_session")
          /\ ~\E r \in db.sessions : r.id = admin'.target /\ r.user_id = admin'.user) =>
            /\ admin'.status = 204
            /\ db'.sessions = db.sessions
            /\ db'.messages = db.messages]_vars

\* The delete of another user's session, answered with 204, the row and
\* its messages in place.
C19_Witness ==
    /\ admin.op = "delete_chat_session" /\ admin.status = 204
    /\ \E r \in db.sessions : r.id = admin.target /\ r.user_id # admin.user
    /\ \E m \in Messages : m.session_id = admin.target /\ ~m.is_deleted

\* Title and last_updated_at of every session row.
TitlesAndTimes(d) ==
    {[id |-> r.id, title |-> r.title, last_updated_at |-> r.last_updated_at] : r \in d.sessions}
\* An update that carries a title: 400 for a title empty once trimmed, else
\* 404 when no row matches id and caller, both leaving titles and times as
\* they were; else 200 and the trimmed title is stored.
RenameStep ==
    (Serves("update_chat_session") /\ admin'.args.title # NULL) =>
        LET new_title == strip(admin'.args.title)
            matches == \E r \in db.sessions : r.id = admin'.target /\ r.user_id = admin'.user
        IN  /\ new_title = "" => admin'.status = 400
            /\ (new_title # "" /\ ~matches) => admin'.status = 404
            /\ (new_title # "" /\ matches) => admin'.status = 200
            /\ admin'.status # 200 => TitlesAndTimes(db') = TitlesAndTimes(db)
            /\ admin'.status = 200 =>
                  \A r \in db'.sessions :
                      r.id = admin'.target =>
                          /\ r.title = new_title
                          /\ new_title \notin {admin'.args.title, ""}

\* C20 as stated: a rename fails with 404 when no session row matches both
\* the id and the caller, and with 400 when the new title is empty after
\* trimming; in both cases title and last_updated_at of every session stay
\* as they were. On success the stored title is the trimmed new title.
C20_RenameRejectsOrTrims == [][RenameStep]_vars

\* An update that carries a title: 400 for a title empty once trimmed; else
\* 500 while the write lock is held, whoever owns the session; else 404 when
\* no row matches id and caller; all three leaving titles and times as they
\* were; else 200 and the trimmed title is stored.
RenameStepUnlessLocked ==
    (Serves("update_chat_session") /\ admin'.args.title # NULL) =>
        LET new_title == strip(admin'.args.title)
            matches == \E r \in db.sessions : r.id = admin'.target /\ r.user_id = admin'.user
        IN  /\ new_title = "" => admin'.status = 400
            /\ (new_title # "" /\ LockedBefore) => admin'.status = 500
            /\ (new_title # "" /\ ~LockedBefore /\ ~matches) => admin'.status = 404
            /\ (new_title # "" /\ ~LockedBefore /\ matches) => admin'.status = 200
            /\ admin'.status # 200 => TitlesAndTimes(db') = TitlesAndTimes(db)
            /\ admin'.status = 200 =>
                  \A r \in db'.sessions :
                      r.id = admin'.target =>
                          /\ r.title = new_title
                          /\ new_title \notin {admin'.args.title, ""}

\* C20 amended: a rename fails with 400 when the new title is empty after
\* trimming; otherwise, while a streaming request suspended after a save
\* that raised holds the write lock of the database, it fails with 500
\* whether or not a row matches; otherwise it fails with 404 when no session
\* row matches both the id and the caller. In all three cases title and
\* last_updated_at of every session stay as they were. On success the
\* stored title is the trimmed new title.
C20_RenameRejectsOrTrimsUnlessLocked == [][RenameStepUnlessLocked]_vars

\* The rename of another user's session while the stream of its owner is
\* suspended with the write lock: answered 500 where no row matches, the
\* row's title not set.
C20_Witness ==
    /\ admin.op = "update_chat_session"
    /\ admin.status = 500
    /\ database_locked
    /\ admin.args.title = " My chat "
    /\ \E r \in db.sessions : r.id = admin.target /\ r.user_id # admin.user /\ r.title = NULL

\* ------------------------------------------- claims on reads and owners
\* A list of messages is the non-deleted rows of the session sid, each once,
\* with the content of its row, in ascending order of timestamp.
LiveAscending(body, sid) ==
    /\ IdsOf(body) = {m.id : m \in {x \in Messages : x.session_id = sid /\ ~x.is_deleted}}
    /\ \A i \in 1..Len(body) :
          /\ \E m \in Messages :
                m.id = body[i].id /\ m.content = body[i].content /\ m.timestamp = body[i].timestamp
          /\ i < Len(body) => body[i].timestamp < body[i + 1].timestamp
\* A read of the messages of a session answers 200: with the live messages in
\* order for a session of the caller, with nothing for any other session id.
ListStep ==
    Serves("get_session_messages") =>
        /\ admin'.status = 200
        /\ IF \E r \in db.sessions : r.id = admin'.target /\ r.user_id = admin'.user
           THEN LiveAscending(admin'.body, admin'.target)
           ELSE admin'.body = << >>

\* C21: list_messages(session) returns exactly the non-deleted messages of
\* that session in ascending order of timestamp, and an empty sequence, not an
\* error, when the session is unknown or owned by another user.
C21_ListLiveInOrderOrNothing == [][ListStep]_vars

\* The owner reads a session that was deleted and created again by the late
\* assistant save: the read has the new message and not the deleted one.
C21_Witness ==
    /\ admin.op = "get_session_messages"
    /\ admin.body # << >>
    /\ \E m \in Messages : m.session_id = admin.target /\ m.is_deleted
    /\ \A m \in Messages : m.is_deleted => m.id \notin IdsOf(admin.body)

\* What a user reads from a session was written by a request of that user.
ReadsOwnMessages ==
    \A uid \in Users, sid \in AppendedSessions :
        \A id \in IdsOf(session_messages(db, sid, uid)) :
            \A m \in Messages : m.id = id => m.user_id = uid
\* A step of a request leaves the session rows of every other user as they
\* were.
ForeignRowsUntouched ==
    \A t \in Turns :
        turns'[t] # turns[t] =>
            \A r \in db.sessions : r.user_id # turns'[t].user => r \in db'.sessions

\* C22: sessions are scoped to one owner. A turn by user U2 with a session id
\* that belongs to user U1 neither changes U1's session row (its
\* last_updated_at) nor adds a message that list_messages returns to U1:
\* every message U1 reads from a session was persisted by a turn of U1.
C22_SessionsScopedToOwner == [] ReadsOwnMessages /\ [][ForeignRowsUntouched]_vars

\* The system message of a session with a system prompt, before the history.
WithSystemPrompt(p, msgs) ==
    (IF p = NULL THEN << >> ELSE << [role |-> "system", content |-> p] >>) \o convert_all(msgs)
\* A step in which a request on the default model calls the upstream model
\* sends the system prompt its session has at that time, when it has one,
\* and then the history of the request.
PromptStep ==
    \A t \in Turns :
        (turns'[t].model_id = NULL /\ Len(turns'[t].upstream) = Len(turns[t].upstream) + 1) =>
            turns'[t].upstream[Len(turns'[t].upstream)].messages =
                WithSystemPrompt(session_system_prompt(db, turns'[t].session_id, turns'[t].user),
                                 turns'[t].messages)

\* C23: the default-model path sends to the upstream model the session's
\* system prompt, when one is set, followed by the full message history, on
\* the blocking endpoint as well as on the streaming endpoint.
C23_SystemPromptThenHistory == [][PromptStep]_vars

\* The author of the message an attachment is linked to.
AuthorsOf(attachment_id) ==
    {m.user_id : m \in {x \in Messages :
                          \E a \in db.attachments : a.id = attachment_id /\ a.message_id = x.id}}
\* A download answers 404 for an id without attachment, 403 for an
\* attachment linked to a message of another user, and the file only to the
\* author of that message; 403 and 404 carry no file.
DownloadStep ==
    Serves("download_attachment") =>
        LET authors == AuthorsOf(admin'.target)
        IN  /\ authors = {} => admin'.status = 404
            /\ (authors # {} /\ admin'.user \notin authors) => admin'.status = 403
            /\ admin'.status = 200 =>
                  /\ authors = {admin'.user}
                  /\ \E a \in db.attachments :
                        a.id = admin'.target /\ admin'.body = [file |-> a.temp_file_id]
            /\ admin'.status \in {200, 403, 404}
            /\ admin'.status # 200 => "file" \notin DOMAIN admin'.body
            /\ db' = db

\* C30: an attachment can be downloaded only by the user who authored the
\* message it is linked to; a download by any other user fails with Forbidden
\* and a download of an unknown attachment id fails with NotFound, and
\* neither returns file content.
C30_DownloadOnlyByAuthor == [][DownloadStep]_vars

\* Another user asks for an attachment of u1's message and gets 403, after
\* u1 downloaded it.
C30_Witness ==
    /\ admin.op = "download_attachment"
    /\ admin.status = 403
    /\ admin.user \notin AuthorsOf(admin.target)
    /\ AuthorsOf(admin.target) # {}
    /\ admin.ops = 2
    /\ admin.prev.op = "download_attachment" /\ admin.prev.target = admin.target
    /\ admin.prev.user \in AuthorsOf(admin.target)

\* ------------------------------------------- claims on replies and errors
\* The rows of role assistant a request wrote.
AssistantRows(t) ==
    {m \in Messages : m.id \in Range(turns[t].saved) /\ m.role = "assistant"}
\* No assistant message is stored with empty content, and what a request
\* stored for a successful upstream call and returned is the reply or the
\* fallback string.
NoEmptyReply ==
    /\ \A m \in Messages : m.role = "assistant" => m.content \notin {NULL, ""}
    /\ \A t \in Turns :
          /\ BlockingOk(t) => turns[t].reply \notin {NULL, ""}
          /\ (turns[t].pc \in {"chat_return", "stream_return"} /\ turns[t].raised = NULL)
                => turns[t].custom_message \notin {NULL, ""}
          /\ (BlockingOk(t) /\ turns[t].assistant_save = "ok")
                => \A m \in AssistantRows(t) : m.content = turns[t].reply

\* A streaming request on the default model whose upstream stream ended
\* without raising and whose saves did not fail has stored its reply: what
\* the chunks carried or, for an empty reply, the fallback string.
StreamedReplyNormalised ==
    \A t \in Turns :
        (/\ turns[t].kind = "stream" /\ turns[t].model_id = NULL
         /\ Finished(t)
         /\ turns[t].upstream # << >>
         /\ ~turns[t].upstream_failed /\ ~turns[t].unexpected /\ ~turns[t].cancelled
         /\ turns[t].user_save # "failed" /\ turns[t].assistant_save # "failed") =>
            \E m \in AssistantRows(t) :
                m.content = IF turns[t].temp_response_buffer = "" THEN FallbackReply
                            ELSE turns[t].temp_response_buffer

\* C24 as stated: an empty or None assistant reply of a successful upstream
\* call is normalised to a fixed fallback string before it is persisted or
\* returned: no assistant message with empty content is ever persisted for
\* a successful call, and what is persisted for an empty reply is the
\* fallback string, on the blocking default path, the custom-model path and
\* the streaming path.
C24_EmptyReplyNormalised == NoEmptyReply /\ StreamedReplyNormalised

\* The upstream call of the request succeeded and the save of its reply
\* failed; no other exception was raised and the client stayed.
OnlyAssistantSaveFailed(t) ==
    /\ Finished(t)
    /\ turns[t].assistant_save = "failed"
    /\ ~turns[t].upstream_failed
    /\ ~turns[t].unexpected
    /\ ~turns[t].cancelled
LastEvent(t) == turns[t].events[Len(turns[t].events)]

\* C25: when the upstream call succeeds but the save of the assistant message
\* fails, the failure is only logged: the blocking endpoint still returns the
\* assistant text and the session id as a success, and the streaming endpoint
\* still ends with the done event without an error event.
C25_FailedAssistantSaveOnlyLogged ==
    \A t \in Turns :
        OnlyAssistantSaveFailed(t) =>
            /\ AssistantRows(t) = {}
            /\ turns[t].kind = "chat" =>
                  /\ turns[t].status = 200
                  /\ turns[t].reply \notin {NULL, ""}
                  /\ turns[t].session_id # NULL
            /\ turns[t].kind = "stream" =>
                  /\ CountType(turns[t].events, "error") = 0
                  /\ turns[t].events # << >>
                  /\ LastEvent(t) = Event("done", turns[t].session_id)

\* A streaming request that sent chunks and the done event, and a blocking
\* request after it that returned its reply, neither with its reply stored.
C25_Witness ==
    \E t, u \in Turns :
        /\ OnlyAssistantSaveFailed(t) /\ OnlyAssistantSaveFailed(u)
        /\ turns[t].kind = "stream" /\ turns[u].kind = "chat"
        /\ CountType(turns[t].events, "chunk") > 0
        /\ LastEvent(t).type = "done"
        /\ turns[u].status = 200 /\ turns[u].reply = "Hello!"

\* The request is at a call of the upstream model, or sleeps between two
\* polls of its run.
AtUpstreamCall(t) ==
    turns[t].pc \in {"chat_default", "custom_gpt", "custom_assistant", "stream_iter",
                     "custom_sleeping"}
\* Another request has arrived and waits to be served; it is for a session
\* whose messages are stored.
Arrived(u) ==
    /\ turns[u].pc = "idle"
    /\ MayBegin(u)
    /\ \E sid \in SessionIdsOf(u) : sid # TitleGenId
\* The request can be served and save its user message now.
CanWrite(u) == ENABLED (chat_begin(u) /\ Len(db'.messages) > Len(db.messages))

\* C26: no database transaction or connection is held open while a turn
\* waits on the upstream model; the saves are short transactions of their
\* own, so while the upstream call of one turn is stalled, a write by any
\* other turn or session can always complete.
C26_WritesCompleteWhileUpstreamStalled ==
    \A t, u \in Turns :
        (AtUpstreamCall(t) /\ Arrived(u)) => CanWrite(u)

\* The rows of chat_messages a request wrote.
WrittenBy(t) == {m \in Messages : m.id \in Range(turns[t].saved)}
\* Two requests appended to one session id.
BothAppended(t, u) ==
    /\ t # u
    /\ turns[t].session_id = turns[u].session_id
    /\ turns[t].saved # << >>
    /\ turns[u].saved # << >>
\* Every save that committed left its row: as many rows as ids, all in the
\* session of the request.
NothingLost(t) ==
    /\ Cardinality(WrittenBy(t)) = Len(turns[t].saved)
    /\ \A m \in WrittenBy(t) : m.session_id = turns[t].session_id
\* The saves of u's request lie between the user save and the assistant
\* save of t's request.
Interleaved(t, u) ==
    /\ Len(turns[t].saved) = 2
    /\ \A id \in Range(turns[u].saved) : turns[t].saved[1] < id /\ id < turns[t].saved[2]

\* C27: for every interleaving of two concurrent turns that append to the
\* same session id there is exactly one session row, every message of both
\* turns is persisted, created_at is the timestamp of the first committed
\* append and last_updated_at that of the last; no append is lost or
\* rejected because of the conflict on the session id.
C27_ConcurrentAppendsOneRow ==
    \A t, u \in Turns :
        BothAppended(t, u) =>
            LET sid == turns[t].session_id
                rows == {r \in db.sessions : r.id = sid}
                stamps == {m.timestamp : m \in WrittenBy(t) \cup WrittenBy(u)}
            IN  /\ NothingLost(t) /\ NothingLost(u)
                /\ Cardinality(rows) = 1
                /\ \A r \in rows :
                      /\ \A ts \in stamps : r.created_at <= ts /\ ts <= r.last_updated_at
                      /\ r.created_at \in stamps /\ r.last_updated_at \in stamps

\* A streaming request of u1 and a blocking request of u2 in the same
\* session: the second saved both its messages while the first was
\* suspended between its user save and its assistant save.
C27_Witness ==
    \E t, u \in Turns :
        /\ BothAppended(t, u)
        /\ Interleaved(t, u)
        /\ Len(turns[u].saved) = 2
        /\ turns[t].kind = "stream"
        /\ turns[u].user # turns[t].user
        /\ Finished(t) /\ Finished(u)

\* C28: a blocking turn that names a custom model id that does not exist is
\* surfaced as NotFound (404), not as 500; validation failures are 400, and
\* only upstream and persistence failures are 500.
C28_MissingModelNotFound ==
    \A t \in Turns :
        (turns[t].kind = "chat" /\ Finished(t)) =>
            /\ turns[t].request # "valid" => turns[t].status = 400
            /\ turns[t].raised = "Custom model not found" => turns[t].status = 404
            /\ turns[t].status = 500 =>
                  \/ turns[t].upstream_failed
                  \/ turns[t].user_save = "failed"
                  \/ turns[t].attachments_save = "failed"
                  \/ turns[t].raised = "database error"

\* The error events a streaming request sent.
Errors(t) == SelectSeq(turns[t].events, LAMBDA e : e.type = "error")
\* The request met no failure: its history was accepted, its saves and its
\* upstream call succeeded and no exception was raised.
NothingFailed(t) ==
    /\ turns[t].request \in {"valid", "bad_tail"}
    /\ turns[t].user_save # "failed"
    /\ turns[t].assistant_save # "failed"
    /\ ~turns[t].upstream_failed
    /\ turns[t].raised = NULL
    /\ ~turns[t].unexpected

\* C29 as stated: a streaming turn emits at most one error event under every
\* combination of failures (invalid history, failed user save, custom-model
\* failure, upstream failure, unexpected exception), and none when the call
\* succeeds.
C29_AtMostOneErrorEvent ==
    \A t \in Turns :
        turns[t].kind = "stream" =>
            /\ Len(Errors(t)) <= 1
            /\ NothingFailed(t) => Errors(t) = << >>

\* ------------------------------------------------ claims on what is left
\* A successful edit writes content and edited_at of the row it names and
\* leaves every other field of it, every other row of chat_messages and
\* every row of chat_sessions as they were.
EditFrame ==
    (Serves("update_chat_message") /\ admin'.status = 200) =>
        /\ Len(db'.messages) = Len(db.messages)
        /\ \A i \in 1..Len(db.messages) :
              IF db.messages[i].id = admin'.target
              THEN db'.messages[i] = [db.messages[i] EXCEPT !.content = db'.messages[i].content,
                                                           !.edited_at = db'.messages[i].edited_at]
              ELSE db'.messages[i] = db.messages[i]
        /\ db'.sessions = db.sessions
        /\ db'.attachments = db.attachments
\* No step changes the content of a stored assistant message.
AssistantContentStays ==
    \A i \in 1..Len(db.messages) :
        (i <= Len(db'.messages) /\ db.messages[i].role = "assistant") =>
            db'.messages[i].content = db.messages[i].content

\* C31: a successful edit_message changes only the content and edited_at of
\* the target message: its timestamp, role, author, session id, is_deleted
\* flag and model_used are unchanged, as are all other messages and every
\* session row (including last_updated_at); the content of an assistant
\* message never changes after it is persisted.
C31_EditTouchesContentOnly == [][EditFrame /\ AssistantContentStays]_vars

\* An edited user message next to the assistant message of the same
\* session, in a session whose row was last touched before the edit.
C31_Witness ==
    /\ admin.op = "update_chat_message" /\ admin.status = 200
    /\ \E m, a \in Messages :
          /\ m.id = admin.target /\ m.content = admin.args.content
          /\ m.edited_at > m.timestamp
          /\ a.session_id = m.session_id /\ a.role = "assistant" /\ a.edited_at = 0
          /\ \E r \in db.sessions : r.id = m.session_id /\ r.last_updated_at < m.edited_at

\* A step that appends a message leaves every session row there was: the
\* row of the message's session with a new last_updated_at and nothing else
\* changed, every other row as it was.
AppendFrame ==
    Len(db'.messages) > Len(db.messages) =>
        LET new == db'.messages[Len(db'.messages)]
        IN  \A r \in db.sessions :
                IF r.id = new.session_id
                THEN [r EXCEPT !.last_updated_at = new.timestamp] \in db'.sessions
                ELSE r \in db'.sessions

\* C32: appending a message to an existing session changes only
\* last_updated_at of that session's row: its owner, title, system_prompt
\* and created_at are unchanged by every append path (blocking user save,
\* blocking assistant save, streaming saves, error saves), and no other
\* session row is changed.
C32_AppendTouchesLastUpdatedOnly == [][AppendFrame]_vars

\* A session of u1 that holds the error message of a custom model and got
\* its title and its system prompt, and then, by the blocking user save of
\* a request of u2, a message of one who does not own it: the row is still
\* u1's, with its title and its prompt.
C32_Witness ==
    \E r \in db.sessions, m, e \in Messages :
        /\ r.user_id = "u1" /\ r.title = "My chat" /\ r.system_prompt = "Be brief."
        /\ e.session_id = r.id /\ e.user_id = "u1" /\ e.role = "assistant"
        /\ turns[FirstTurn].model_id # NULL /\ turns[FirstTurn].upstream_failed
        /\ m.session_id = r.id /\ m.user_id = "u2" /\ m.role = "user"
        /\ m.timestamp = r.last_updated_at
        /\ r.created_at < r.last_updated_at
        /\ admin.op = "update_chat_session" /\ admin.status = 200

\* C33: a title-generation request (purpose 'Generate title', or a session id
\* containing '__title_gen') on the blocking endpoint writes nothing to the
\* store: no user message, no assistant message, no error message and no
\* session row, on the default path and on the custom-model path, whether
\* the upstream call succeeds or fails.
C33_TitleGenerationWritesNothing ==
    /\ \A t \in Turns :
          (turns[t].kind = "chat" /\ turns[t].title_generation_mode) => turns[t].saved = << >>
    /\ (\A t \in Turns : turns[t].pc = "idle"
                            \/ (turns[t].kind = "chat" /\ turns[t].title_generation_mode))
          => db.messages = << >> /\ db.sessions = {} /\ db.attachments = {}

\* The owner deleted the session of request t after t had begun (the user
\* message of t is among the deleted), no request was served since, and t
\* has finished.
DeletedDuring(t) ==
    /\ Finished(t)
    /\ admin.op = "delete_chat_session"
    /\ admin.user = turns[t].user
    /\ admin.target = turns[t].session_id
    /\ \E m \in WrittenBy(t) : m.role = "user" /\ m.is_deleted

\* C34: for every interleaving of delete_session(S) by the owner with a turn
\* on S that started before the delete, once both have finished the session
\* stays deleted: S has no session row, list_sessions does not return S, and
\* no non-deleted message exists in S (the late assistant save of the turn
\* does not create the session again).
C34_DeletedSessionStaysDeleted ==
    \A t \in Turns :
        DeletedDuring(t) =>
            LET S == turns[t].session_id
                listed == session_list(db, turns[t].user)
            IN  /\ ~HasRow(S)
                /\ \A i \in 1..Len(listed) : listed[i].session_id # S
                /\ \A m \in Messages : m.session_id = S => m.is_deleted

\* No step writes content or edited_at of a row whose is_deleted flag is
\* set, before the step or after it; a successful edit leaves the row it
\* checked not deleted.
DeletedContentStays ==
    /\ \A i \in 1..Len(db.messages) :
          (i <= Len(db'.messages) /\ (db.messages[i].is_deleted \/ db'.messages[i].is_deleted)) =>
              /\ db'.messages[i].content = db.messages[i].content
              /\ db'.messages[i].edited_at = db.messages[i].edited_at
    /\ (Serves("update_chat_message") /\ admin'.status = 200) =>
          \A m \in RowsWithId(db'.messages, admin'.target) : ~m.is_deleted

\* Between the SELECT of an edit and its UPDATE no step of another request
\* is taken: the row the UPDATE writes is the row the SELECT checked.
CheckAndUpdateTogether ==
    \A p \in admin.pending :
        (p.op = "update_chat_message" /\ p \in admin'.pending) => UNCHANGED <<db, turns, admin>>

\* C35: for every interleaving of edit_message with delete_session at
\* database-statement granularity the content of a message is never changed
\* while its is_deleted flag is true: the authorization check and the
\* content update of an edit act on the same state of the message.
C35_NoEditOfDeletedMessage == [][DeletedContentStays /\ CheckAndUpdateTogether]_vars

\* The author's edit of a message after the delete of its session, both
\* followed statement by statement: the SELECT of the edit found no row, the
\* edit was rejected, content and edited_at are as they were written.
C35_Witness ==
    /\ admin.ops = 2
    /\ admin.pending = {}
    /\ admin.op = "update_chat_message" /\ admin.status = 404
    /\ admin.prev.op = "delete_chat_session" /\ admin.prev.status = 204
    /\ admin.prev.user = admin.user
    /\ \E m \in Messages :
          /\ m.id = admin.target /\ m.user_id = admin.user /\ m.role = "user"
          /\ m.is_deleted /\ m.session_id = admin.prev.target
          /\ m.content # admin.args.content /\ m.edited_at = 0

\* The payloads of the chunk events of a list of events, joined in the
\* order of the events.
RECURSIVE Joined(_)
Joined(evs) ==
    IF evs = << >> THEN ""
    ELSE (IF Head(evs).type = "chunk" THEN Head(evs).data ELSE "") \o Joined(Tail(evs))
\* A streaming request on the default model that ran to its done event:
\* the upstream stream ended without raising, no other exception was raised
\* and the client stayed.
DefaultStreamCompleted(t) ==
    /\ turns[t].kind = "stream" /\ turns[t].model_id = NULL
    /\ Finished(t)
    /\ ~turns[t].upstream_failed /\ ~turns[t].unexpected /\ ~turns[t].cancelled
    /\ turns[t].upstream # << >>

\* C36: in a default-model streaming turn that completes without upstream
\* failure, the content of the persisted assistant message equals the
\* concatenation, in emission order, of the payloads of all chunk events
\* sent to the client in that turn, and its model_used is the default model
\* identifier.
C36_StoredReplyIsTheChunks ==
    \A t \in Turns :
        DefaultStreamCompleted(t) =>
            /\ \A m \in AssistantRows(t) :
                  m.content = Joined(turns[t].events) /\ m.model_used = "gpt-4o-mini"
            /\ turns[t].assistant_save = "ok" => Cardinality(AssistantRows(t)) = 1
            /\ Cardinality(AssistantRows(t)) <= 1

\* Two chunks with different text, stored in the order they were sent.
C36_Witness ==
    \E t \in Turns :
        /\ DefaultStreamCompleted(t)
        /\ Types(turns[t].events) = << "chunk", "chunk", "done" >>
        /\ turns[t].events[1].data = "a" /\ turns[t].events[2].data = "b"
        /\ \E m \in AssistantRows(t) : m.content = "ab"

\* A request that has messages to store: its history ends with a user
\* message, it is no title generation, and no save of it failed.
StoresItsTurn(t) ==
    /\ turns[t].request = "valid"
    /\ ~turns[t].title_generation_mode
    /\ turns[t].user_save # "failed"
    /\ turns[t].assistant_save # "failed"
    /\ turns[t].attachments_save # "failed"

\* C37: within every turn the steps are ordered: the user message is
\* committed before the upstream model call starts and before the first
\* chunk event, and the assistant message (success or error) is committed
\* before the done event is emitted or the blocking response is returned;
\* all messages persisted by one turn carry the same session id, which is
\* the id reported to the client. Stated here for the turns that have
\* messages to store and whose saves did not fail.
C37_StepsOrdered ==
    \A t \in Turns :
        StoresItsTurn(t) =>
            /\ (turns[t].upstream # << >> \/ CountType(turns[t].events, "chunk") > 0)
                  => \E m \in WrittenBy(t) : m.role = "user"
            /\ (CountType(turns[t].events, "done") > 0 \/ BlockingOk(t))
                  => AssistantRows(t) # {}
            /\ AllInSession(t)
            /\ \A i \in 1..Len(turns[t].events) :
                  turns[t].events[i].type = "done" => turns[t].events[i].data = turns[t].session_id

\* The request went down the tool-augmented path of a stored assistant.
ToolAugmented(t) == turns[t].model_type = "assistant"
\* The calls that filled the upstream thread of the request.
ThreadPushes(t) ==
    {i \in 1..Len(turns[t].upstream) : turns[t].upstream[i].call = "threads.messages.create"}
\* The request handed reply text to the client: in the blocking response or
\* as a chunk event.
ReturnedReply(t) ==
    \/ BlockingOk(t)
    \/ turns[t].reply # NULL
    \/ CountType(turns[t].events, "chunk") > 0
\* The run left the poll loop with a terminal status other than completed and
\* the code after the loop has run.
RunEndedBadly(t) ==
    /\ ToolAugmented(t)
    /\ ~still_running(turns[t].run_status)
    /\ turns[t].run_status \notin {NULL, "completed"}
    /\ turns[t].pc # "custom_poll"
\* What the client sees of a failed run: no reply text; a finished blocking
\* request answered 500; a stream that got past its first event holds an
\* error event and no chunk.
FailsUpstream(t) ==
    /\ ~ReturnedReply(t)
    /\ turns[t].upstream_failed
    /\ turns[t].raised_status = 500
    /\ (turns[t].kind = "chat" /\ Finished(t)) => turns[t].status = 500
    /\ (turns[t].kind = "stream" /\ turns[t].pc # "stream_return")
          => CountType(turns[t].events, "error") >= 1
\* Only the user messages of the history reach the thread, in their order:
\* all of them once the run was created, the first ones when a call raised.
OnlyUserMessagesPushed ==
    \A t \in Turns : \A i \in ThreadPushes(t) :
        /\ ToolAugmented(t)
        /\ LET users == convert_all(SelectSeq(turns[t].messages, LAMBDA m : m.role = "user"))
               sent == turns[t].upstream[i].messages
           IN  /\ Len(sent) <= Len(users)
               /\ sent = SubSeq(users, 1, Len(sent))
               /\ turns[t].run_status # NULL => sent = users
        /\ \A j \in 1..Len(turns[t].upstream[i].messages) :
              turns[t].upstream[i].messages[j].role = "user"
\* Reply text is handed out by the tool-augmented path only for a completed run.
ReplyOnlyWhenCompleted ==
    \A t \in Turns :
        (ToolAugmented(t) /\ ReturnedReply(t)) => turns[t].run_status = "completed"

\* C38 as stated: on the tool-augmented path only the user-role messages of
\* the history are pushed to the upstream thread, and the turn returns an
\* assistant reply only if the run's final status is completed; for any
\* other terminal status exactly one error assistant message is persisted
\* and the turn fails with an upstream failure, never returning reply text.
C38_FailedRunOneErrorMessage ==
    /\ OnlyUserMessagesPushed
    /\ ReplyOnlyWhenCompleted
    /\ \A t \in Turns :
          RunEndedBadly(t) => (NewErrorAssistant(t) = 1 /\ NewAssistant(t) = 1 /\ FailsUpstream(t))

\* C38 amended: the same, but the error assistant message exists exactly when
\* its save succeeded; a failed save is only logged and leaves no assistant
\* message of the turn, and the turn fails in the same way.
C38_FailedRunErrorMessageIfSaved ==
    /\ OnlyUserMessagesPushed
    /\ ReplyOnlyWhenCompleted
    /\ \A t \in Turns :
          RunEndedBadly(t) =>
              /\ turns[t].assistant_save \in {"ok", "failed"}
              /\ NewErrorAssistant(t) = (IF turns[t].assistant_save = "ok" THEN 1 ELSE 0)
              /\ NewAssistant(t) = NewErrorAssistant(t)
              /\ \A m \in AssistantRows(t) :
                    /\ m.content = "Assistant run failed. Status: " \o turns[t].run_status
                    /\ m.model_used = turns[t].model_used \o "-error"
              /\ FailsUpstream(t)

\* A run that failed after a history with assistant messages in it was pushed,
\* its error message saved and the request finished.
C38_Witness ==
    \E t \in Turns :
        /\ RunEndedBadly(t)
        /\ Finished(t)
        /\ NewErrorAssistant(t) = 1
        /\ \E i \in ThreadPushes(t) :
              Len(turns[t].upstream[i].messages) < Len(turns[t].messages)

\* The request is inside the poll loop: at its condition or asleep.
InPollLoop(t) == turns[t].pc \in {"custom_poll", "custom_sleeping"}
\* The status runs.retrieve reported last is terminal.
RunTerminal(t) == turns[t].run_status \notin {NULL, "queued", "in_progress"}
\* The request got out of chat_with_custom_model and its caller went on: the
\* blocking request is answered, the generator is past the call.
TurnWentOn(t) ==
    /\ ~InPollLoop(t)
    /\ turns[t].kind = "chat" => Finished(t)
    /\ turns[t].kind = "stream" => turns[t].pc # "stream_return"
\* A step out of the loop that is not the loop's own end: runs.retrieve
\* raised, or the client of a stream went away during the sleep.
LeftByException(t) ==
    /\ turns[t].pc = "custom_sleeping"
    /\ \/ turns'[t].raised = UpstreamError /\ turns'[t].upstream_failed
       \/ turns'[t].cancelled
\* Every step that ends the loop finds a terminal status, every step at the
\* loop's condition with a queued or in_progress run stays in the loop, and
\* a terminal status is never followed by another sleep.
LoopStep ==
    \A t \in Turns :
        /\ (InPollLoop(t) /\ ~InPollLoop(t)' /\ ~LeftByException(t)) => RunTerminal(t)
        /\ (turns[t].pc = "custom_poll" /\ ~RunTerminal(t)) => InPollLoop(t)'
        /\ (turns[t].pc = "custom_poll" /\ RunTerminal(t)) => turns'[t].pc # "custom_sleeping"

\* C39: the run-polling loop of the tool-augmented path leaves the loop
\* exactly when the run status is neither queued nor in_progress: a run
\* that reached a terminal status leads to the turn returning or failing,
\* and while the status stays queued or in_progress no step takes the turn
\* out of the loop (there is no timeout or retry cap).
C39_PollLoopEndsWithTheRun ==
    /\ [][LoopStep]_vars
    /\ \A t \in Turns : (turns[t].pc = "custom_poll" /\ RunTerminal(t)) ~> TurnWentOn(t)

\* A request that slept twice with the run in progress, then found it
\* terminal and was answered.
C39_Witness ==
    \E t \in Turns :
        /\ turns[t].polls = MaxPolls
        /\ RunTerminal(t)
        /\ TurnWentOn(t)
        /\ Finished(t)
====
